---- MODULE Spec2Model ----
(***************************************************************************)
(* Model of the account capability functions of the Cadence standard       *)
(* library (package stdlib, src/unnamed/part_001): the native functions    *)
(* behind AuthAccount / PublicAccount values, and the host environment     *)
(* they call.                                                              *)
(*                                                                         *)
(* The host environment is an interface in the source; it is modelled as   *)
(* a contract store that answers GetAccountContractCode and is changed by  *)
(* RemoveAccountContractCode, and that may answer any fallible call with   *)
(* an error.  Every capability call leaves its complete record in `last`:  *)
(* the ordered trace of host calls it made (EmitEvent included), the fault *)
(* it raised, and the value it returned.                                   *)
(*                                                                         *)
(* Arguments are well typed, as the type checker guarantees: the           *)
(* errors.NewUnreachableError branches of the functions are not taken.     *)
(***************************************************************************)
EXTENDS Integers, Sequences, FiniteSets, TLC

VARIABLES
    contracts,  \* host: [Addresses \X ContractNames -> Codes], <<>> = no code
    recorded,   \* host: the (address, name) pairs given to RecordContractRemoval
    accountKeys,\* host: [Addresses -> the list of AccountKeys of the account]
    encodedKeys,\* host: [Addresses -> the list of encoded keys of the account]
    last,       \* the record of the most recent capability call
    calls,      \* proxy: [Callers -> the call of the proxy the caller is in]
    wire        \* proxy: [Connections -> what went over the connection]

\* What the capability functions and their host read and write
capabilityVars == <<contracts, recorded, accountKeys, encodedKeys, last>>

vars == <<contracts, recorded, accountKeys, encodedKeys, last, calls, wire>>

----------------------------------------------------------------------------
(* Bounds *)

NumAddrs == 2
MaxDeployed == 1
MaxKeyIndex == 1
MaxKeys == 2

Addresses == 1..NumAddrs

\* Contract names interpreted code may pass; "" is the empty name.
Names == {"", "Foo"}

\* The host stores code under non-empty names only.
ContractNames == Names \ {""}

\* A byte of contract code stands for one top-level piece of program text:
\* "s" a structure declaration, "e" an enum declaration, "x" text that is
\* not a declaration at all.  The programs used as code: none, a structure,
\* an enum, text that does not parse, and an enum followed by text that does
\* not parse.
Codes == {<<>>, <<"s">>, <<"e">>, <<"x">>, <<"e", "x">>}

----------------------------------------------------------------------------
(* Interpreter values *)

AddressValue(a) == [t |-> "Address", address |-> a]

StringValue(s) == [t |-> "String", str |-> s]

IntValue(i) == [t |-> "Int", int |-> i]

VoidValue == [t |-> "Void"]

NilValue == [t |-> "Nil"]

SomeValue(v) == [t |-> "Some", value |-> v]

\* [UInt8] array value holding the given bytes
ByteSliceToByteArrayValue(bytes) == [t |-> "Array", elements |-> bytes]

ByteArrayValueToByteSlice(arrayValue) == arrayValue.elements

NewDeployedContractValue(addressValue, nameValue, codeValue) ==
    [t |-> "DeployedContract",
     address |-> addressValue,
     name |-> nameValue,
     code |-> codeValue]

\* The result slot of a call that faulted: no value reaches interpreted code.
NoValue == [t |-> "Aborted"]

----------------------------------------------------------------------------
(* Faults *)

NoFault == "none"
HostFault == "host error"
EmptyNameFault == "contract name argument cannot be empty"
CannotUpdateFault == "cannot update non-existing contract"
CannotOverwriteFault == "cannot overwrite existing contract"
ContractRemovalError == "cannot remove contract"
\* A panic raised by the host that leaves the function as it was raised
HostPanicFault == "panic of the host"
\* The panic of the Go runtime when a field of a nil pointer is read
NilDereferenceFault == "invalid memory address or nil pointer dereference"

UserFaults ==
    {EmptyNameFault, CannotUpdateFault, CannotOverwriteFault, ContractRemovalError}

----------------------------------------------------------------------------
(* Events *)

AccountCreatedEventType == "flow.AccountCreated"
AccountKeyAddedEventType == "flow.AccountKeyAdded"
AccountKeyRemovedEventType == "flow.AccountKeyRemoved"
AccountContractAddedEventType == "flow.AccountContractAdded"
AccountContractUpdatedEventType == "flow.AccountContractUpdated"
AccountContractRemovedEventType == "flow.AccountContractRemoved"

\* sha3.Sum256 of the code, as a [UInt8] value.  The digest is modelled as an
\* injective tagging of its input: equal digests iff equal code.
CodeToHashValue(code) == ByteSliceToByteArrayValue(<<"sha3-256">> \o code)

----------------------------------------------------------------------------
(* Host calls: one record per call a capability function makes *)

HostCall(method, with, err, ret) ==
    [call |-> method, err |-> err, ret |-> ret, with |-> with]

EmitEvent(eventType, values) ==
    HostCall("EmitEvent", <<eventType, values>>, FALSE, <<>>)

\* GetAccountContractCode(address, name) on the host
GetAccountContractCode(address, name, err) ==
    HostCall("GetAccountContractCode", <<address, name>>, err,
             \* when it returns an error the host returns, with it, the code
             \* it holds
             IF name \notin ContractNames
             THEN <<>>
             ELSE contracts[<<address, name>>])

RemoveAccountContractCode(address, name, err) ==
    HostCall("RemoveAccountContractCode", <<address, name>>, err, <<>>)

RecordContractRemoval(address, name) ==
    HostCall("RecordContractRemoval", <<address, name>>, FALSE, <<>>)

\* The host's store after RemoveAccountContractCode(address, name) succeeded
StoreAfterRemove(address, name) ==
    IF name \in ContractNames
    THEN [contracts EXCEPT ![<<address, name>>] = <<>>]
    ELSE contracts

\* A host answer: an error, or a value
HostError == [err |-> TRUE]
HostValue(v) == [err |-> FALSE, value |-> v]
\* The host returns a value and, with it, an error
HostValueAndError(v) == [err |-> TRUE, value |-> v]

\* The value the function receives from the host: the one returned, or the
\* zero value of the type when the host returned an error alone
ReturnOf(answer, zero) ==
    IF "value" \in DOMAIN answer THEN answer.value ELSE zero

----------------------------------------------------------------------------
(* Outcome of one capability call *)

Outcome(trace, fault, result, store, rec) ==
    [trace |-> trace, fault |-> fault, result |-> result,
     contracts |-> store, recorded |-> rec]

Faulted(trace, fault) == Outcome(trace, fault, NoValue, contracts, recorded)

Returned(trace, result) == Outcome(trace, NoFault, result, contracts, recorded)

----------------------------------------------------------------------------
(* Parsing of stored code (package parser) *)

\* parser.ParseProgram: fails iff some piece of the text is not a declaration
ParseProgram(code) ==
    [err |-> \E i \in 1..Len(code) : code[i] = "x",
     declarations |-> code]

\* containsEnumsInProgram: some declaration of the program is an enum
containsEnumsInProgram(program) ==
    \E i \in 1..Len(program.declarations) : program.declarations[i] = "e"

----------------------------------------------------------------------------
(* AuthAccount.contracts.add / update__experimental *)

\* Mutant: the update branch of the gate is missing.
ChangeGateUpdateUnchecked(isUpdate, existingCode) ==
    IF isUpdate
    THEN NoFault
    ELSE IF Len(existingCode) > 0 THEN CannotOverwriteFault ELSE NoFault

\* Mutant: the add branch tests the length the way the update branch does.
ChangeGateAddInverted(isUpdate, existingCode) ==
    IF isUpdate
    THEN IF Len(existingCode) = 0 THEN CannotUpdateFault ELSE NoFault
    ELSE IF Len(existingCode) = 0 THEN CannotOverwriteFault ELSE NoFault

\* The precondition gate on the code fetched for (address, name):
\* the fault it raises, or NoFault when the call may go on.
ChangeGate(isUpdate, existingCode) ==
    IF isUpdate
    THEN IF Len(existingCode) = 0 THEN CannotUpdateFault ELSE NoFault
    ELSE IF Len(existingCode) > 0 THEN CannotOverwriteFault ELSE NoFault

\* Mutant: the event type does not depend on isUpdate.
ChangeEventTypeAlwaysAdded(isUpdate) == AccountContractAddedEventType

ChangeEventType(isUpdate) ==
    IF isUpdate
    THEN AccountContractUpdatedEventType
    ELSE AccountContractAddedEventType

\* Mutant: the existing code is fetched before the name is looked at.
ChangeFunctionFetchesFirst(addressValue, isUpdate, nameValue, newCodeValue, getErr) ==
    LET nameArgument == nameValue.str
        get == GetAccountContractCode(addressValue.address, nameArgument, getErr)
        emit == EmitEvent(ChangeEventType(isUpdate),
                          <<addressValue,
                            CodeToHashValue(ByteArrayValueToByteSlice(newCodeValue)),
                            nameValue>>)
    IN  IF get.err
        THEN Faulted(<<get>>, HostFault)
        ELSE IF nameArgument = ""
        THEN Faulted(<<get>>, EmptyNameFault)
        ELSE IF ChangeGate(isUpdate, get.ret) # NoFault
        THEN Faulted(<<get>>, ChangeGate(isUpdate, get.ret))
        ELSE Returned(<<get, emit>>,
                      NewDeployedContractValue(addressValue, nameValue, newCodeValue))

\* Mutant: the new code is handed to the host, which stores it.
ChangeFunctionStoresCode(addressValue, isUpdate, nameValue, newCodeValue, getErr) ==
    LET code == ByteArrayValueToByteSlice(newCodeValue)
        nameArgument == nameValue.str
        address == addressValue.address
        get == GetAccountContractCode(address, nameArgument, getErr)
        update == HostCall("UpdateAccountContractCode",
                           <<address, nameArgument, code>>, FALSE, <<>>)
        emit == EmitEvent(ChangeEventType(isUpdate),
                          <<addressValue, CodeToHashValue(code), nameValue>>)
    IN  IF nameArgument = ""
        THEN Faulted(<<>>, EmptyNameFault)
        ELSE IF get.err
        THEN Faulted(<<get>>, HostFault)
        ELSE IF ChangeGate(isUpdate, get.ret) # NoFault
        THEN Faulted(<<get>>, ChangeGate(isUpdate, get.ret))
        ELSE Outcome(<<get, update, emit>>, NoFault,
                     NewDeployedContractValue(addressValue, nameValue, newCodeValue),
                     [contracts EXCEPT ![<<address, nameArgument>>] = code],
                     recorded)

\* getErr: the host answers GetAccountContractCode with an error
newAuthAccountContractsChangeFunction(addressValue, isUpdate, nameValue, newCodeValue, getErr) ==
    LET code == ByteArrayValueToByteSlice(newCodeValue)
        nameArgument == nameValue.str
        address == addressValue.address
        get == GetAccountContractCode(address, nameArgument, getErr)
        existingCode == get.ret
        codeHashValue == CodeToHashValue(code)
        emit == EmitEvent(ChangeEventType(isUpdate),
                          <<addressValue, codeHashValue, nameValue>>)
    IN  IF nameArgument = ""
        THEN Faulted(<<>>, EmptyNameFault)
        ELSE IF get.err
        THEN Faulted(<<get>>, HostFault)
        ELSE IF ChangeGate(isUpdate, existingCode) # NoFault
        THEN Faulted(<<get>>, ChangeGate(isUpdate, existingCode))
        ELSE Returned(<<get, emit>>,
                      NewDeployedContractValue(addressValue, nameValue, newCodeValue))

----------------------------------------------------------------------------
(* AuthAccount.contracts.names / PublicAccount.contracts.names *)

\* The lists of names a host may return from GetAccountContractNames
NameLists ==
    {<<>>, <<"Foo">>, <<"Foo", "Bar">>, <<"Bar", "Foo">>, <<"Bar", "Foo", "Baz">>}

\* [String] array value holding the given values
NewArrayValue(values) == [t |-> "Array", elements |-> values]

GetAccountContractNames(address, answer) ==
    HostCall("GetAccountContractNames", <<address>>, answer.err,
             IF answer.err THEN <<>> ELSE answer.value)

\* Mutant: every element is built from the name the loop ended on.
GetNamesFunctionCapturesLast(addressValue, answer) ==
    LET getNames == GetAccountContractNames(addressValue.address, answer)
        names == getNames.ret
    IN  IF getNames.err
        THEN Faulted(<<getNames>>, HostFault)
        ELSE Returned(<<getNames>>,
                      NewArrayValue([i \in 1..Len(names) |->
                                        StringValue(names[Len(names)])]))

\* answer: what the host returns from GetAccountContractNames
newAccountContractsGetNamesFunction(addressValue, answer) ==
    LET address == addressValue.address
        getNames == GetAccountContractNames(address, answer)
        names == getNames.ret
        values == [i \in 1..Len(names) |-> StringValue(names[i])]
    IN  IF getNames.err
        THEN Faulted(<<getNames>>, HostFault)
        ELSE Returned(<<getNames>>, NewArrayValue(values))

----------------------------------------------------------------------------
(* AuthAccount.contracts.get / PublicAccount.contracts.get *)

\* Mutant: empty code is wrapped like any other code.
GetFunctionWrapsEmptyCode(addressValue, nameValue, getErr) ==
    LET get == GetAccountContractCode(addressValue.address, nameValue.str, getErr)
    IN  IF get.err
        THEN Faulted(<<get>>, HostFault)
        ELSE Returned(<<get>>,
                 SomeValue(NewDeployedContractValue(
                     addressValue, nameValue, ByteSliceToByteArrayValue(get.ret))))

\* Mutant: code the host returned is handed on though an error came with it.
GetFunctionPrefersValue(addressValue, nameValue, getErr) ==
    LET get == GetAccountContractCode(addressValue.address, nameValue.str, getErr)
    IN  IF Len(get.ret) > 0
        THEN Returned(<<get>>,
                 SomeValue(NewDeployedContractValue(
                     addressValue, nameValue, ByteSliceToByteArrayValue(get.ret))))
        ELSE IF get.err
        THEN Faulted(<<get>>, HostFault)
        ELSE Returned(<<get>>, NilValue)

newAccountContractsGetFunction(addressValue, nameValue, getErr) ==
    LET name == nameValue.str
        address == addressValue.address
        get == GetAccountContractCode(address, name, getErr)
        code == get.ret
    IN  IF get.err
        THEN Faulted(<<get>>, HostFault)
        ELSE IF Len(code) > 0
        THEN Returned(<<get>>,
                 SomeValue(NewDeployedContractValue(
                     addressValue, nameValue, ByteSliceToByteArrayValue(code))))
        ELSE Returned(<<get>>, NilValue)

----------------------------------------------------------------------------
(* AuthAccount.contracts.remove *)

\* Mutant: the removal is recorded and announced before the host is asked
\* to remove, and whatever the host answers.
RemovalOfRecordsFirst(addressValue, nameValue, get, removeErr) ==
    LET name == nameValue.str
        address == addressValue.address
        code == get.ret
        remove == RemoveAccountContractCode(address, name, removeErr)
        record == RecordContractRemoval(address, name)
        emit == EmitEvent(AccountContractRemovedEventType,
                          <<addressValue, CodeToHashValue(code), nameValue>>)
    IN  IF remove.err
        THEN Outcome(<<get, record, emit, remove>>, HostFault, NoValue,
                     contracts, recorded \cup {<<address, name>>})
        ELSE Outcome(<<get, record, emit, remove>>,
                     NoFault,
                     SomeValue(NewDeployedContractValue(
                         addressValue, nameValue,
                         ByteSliceToByteArrayValue(code))),
                     StoreAfterRemove(address, name),
                     recorded \cup {<<address, name>>})

\* The steps of a removal once it has been decided
RemovalOf(addressValue, nameValue, get, removeErr) ==
    LET name == nameValue.str
        address == addressValue.address
        code == get.ret
        remove == RemoveAccountContractCode(address, name, removeErr)
        record == RecordContractRemoval(address, name)
        emit == EmitEvent(AccountContractRemovedEventType,
                          <<addressValue, CodeToHashValue(code), nameValue>>)
    IN  IF remove.err
        THEN Faulted(<<get, remove>>, HostFault)
        ELSE Outcome(<<get, remove, record, emit>>,
                     NoFault,
                     SomeValue(NewDeployedContractValue(
                         addressValue, nameValue,
                         ByteSliceToByteArrayValue(code))),
                     StoreAfterRemove(address, name),
                     recorded \cup {<<address, name>>})

\* Mutant: the removal goes on whether or not code was found.
RemoveFunctionIgnoresAbsence(addressValue, nameValue, getErr, removeErr) ==
    LET get == GetAccountContractCode(addressValue.address, nameValue.str, getErr)
        existingProgram == ParseProgram(get.ret)
    IN  IF get.err
        THEN Faulted(<<get>>, HostFault)
        ELSE IF ~existingProgram.err /\ containsEnumsInProgram(existingProgram)
        THEN Faulted(<<get>>, ContractRemovalError)
        ELSE RemovalOf(addressValue, nameValue, get, removeErr)

\* Mutant: the stored code is not looked at for enums.
RemoveFunctionSkipsEnumCheck(addressValue, nameValue, getErr, removeErr) ==
    LET get == GetAccountContractCode(addressValue.address, nameValue.str, getErr)
    IN  IF get.err
        THEN Faulted(<<get>>, HostFault)
        ELSE IF Len(get.ret) > 0
        THEN RemovalOf(addressValue, nameValue, get, removeErr)
        ELSE Returned(<<get>>, NilValue)

\* Mutant: stored code that does not parse is looked at for enums all the
\* same.
RemoveFunctionChecksUnparsed(addressValue, nameValue, getErr, removeErr) ==
    LET get == GetAccountContractCode(addressValue.address, nameValue.str, getErr)
        existingProgram == ParseProgram(get.ret)
    IN  IF get.err
        THEN Faulted(<<get>>, HostFault)
        ELSE IF Len(get.ret) > 0
        THEN IF containsEnumsInProgram(existingProgram)
             THEN Faulted(<<get>>, ContractRemovalError)
             ELSE RemovalOf(addressValue, nameValue, get, removeErr)
        ELSE Returned(<<get>>, NilValue)

\* getErr, removeErr: the host answers GetAccountContractCode /
\* RemoveAccountContractCode with an error
newAuthAccountContractsRemoveFunction(addressValue, nameValue, getErr, removeErr) ==
    LET name == nameValue.str
        address == addressValue.address
        get == GetAccountContractCode(address, name, getErr)
        code == get.ret
        existingProgram == ParseProgram(code)
    IN  IF get.err
        THEN Faulted(<<get>>, HostFault)
        ELSE IF Len(code) > 0
        THEN IF ~existingProgram.err /\ containsEnumsInProgram(existingProgram)
             THEN Faulted(<<get>>, ContractRemovalError)
             ELSE RemovalOf(addressValue, nameValue, get, removeErr)
        ELSE Returned(<<get>>, NilValue)

----------------------------------------------------------------------------
(* Keys *)

KeyIndices == 0..MaxKeyIndex

\* Encoded key material
KeyBytes == {<<"k1">>, <<"k2">>}

\* Raw values of the SignatureAlgorithm and HashAlgorithm enum cases used
SignAlgos == {1, 2}
HashAlgos == {1, 3}

\* UFix64: a value is held as its multiple of 1/Fix64Factor
Fix64Factor == 100000000

\* UFix64 weights interpreted code may pass: 1.0 and 1.5
Weights == {Fix64Factor, 3 * (Fix64Factor \div 2)}

UFix64Value(raw) == [t |-> "UFix64", raw |-> raw]

\* UFix64Value.ToInt: the integer part
UFix64ToInt(weightValue) == weightValue.raw \div Fix64Factor

NewUFix64ValueWithInteger(n) == UFix64Value(n * Fix64Factor)

BoolValue(b) == [t |-> "Bool", bool |-> b]

NewEnumCase(enumType, rawValue) ==
    [t |-> enumType, rawValue |-> rawValue]

\* stdlib.PublicKey and stdlib.AccountKey, the host's structures
PublicKey(bytes, signAlgo) == [PublicKey |-> bytes, SignAlgo |-> signAlgo]

AccountKey(keyIndex, publicKey, hashAlgo, weight, isRevoked) ==
    [KeyIndex |-> keyIndex, PublicKey |-> publicKey, HashAlgo |-> hashAlgo,
     Weight |-> weight, IsRevoked |-> isRevoked]

\* The PublicKey composite value; validator names the validation handler
\* the value was built with.
NewPublicKeyValue(publicKey, validator) ==
    [t |-> "PublicKey",
     publicKey |-> ByteSliceToByteArrayValue(publicKey.PublicKey),
     signatureAlgorithm |-> NewEnumCase("SignatureAlgorithm", publicKey.SignAlgo),
     validator |-> validator]

NewPublicKeyFromValue(publicKeyValue) ==
    PublicKey(ByteArrayValueToByteSlice(publicKeyValue.publicKey),
              publicKeyValue.signatureAlgorithm.rawValue)

NewHashAlgorithmFromValue(value) == value.rawValue

\* The two validators a PublicKey value is built with: the interpreter's
\* PublicKeyValidationHandler, which has the host validate the key, and the
\* function literal of keys.get / keys.revoke, which returns nil.
\* hostAnswer: the error the host's validation would return, if asked.
ValidatePublicKey(validator, hostAnswer) ==
    IF validator = "assumed valid"
    THEN [asksHost |-> FALSE, err |-> FALSE]
    ELSE [asksHost |-> TRUE, err |-> hostAnswer]

\* Mutant: the revoked flag of the host's key is not carried over.
NewAccountKeyValueDropsRevoked(accountKey, validator) ==
    [t |-> "AccountKey",
     keyIndex |-> IntValue(accountKey.KeyIndex),
     publicKey |-> NewPublicKeyValue(accountKey.PublicKey, validator),
     hashAlgorithm |-> NewEnumCase("HashAlgorithm", accountKey.HashAlgo),
     weight |-> NewUFix64ValueWithInteger(accountKey.Weight),
     isRevoked |-> BoolValue(FALSE)]

\* Mutant: key indices are counted from one.
NewAccountKeyValueRenumbers(accountKey, validator) ==
    [t |-> "AccountKey",
     keyIndex |-> IntValue(accountKey.KeyIndex + 1),
     publicKey |-> NewPublicKeyValue(accountKey.PublicKey, validator),
     hashAlgorithm |-> NewEnumCase("HashAlgorithm", accountKey.HashAlgo),
     weight |-> NewUFix64ValueWithInteger(accountKey.Weight),
     isRevoked |-> BoolValue(accountKey.IsRevoked)]

NewAccountKeyValue(accountKey, validator) ==
    [t |-> "AccountKey",
     keyIndex |-> IntValue(accountKey.KeyIndex),
     publicKey |-> NewPublicKeyValue(accountKey.PublicKey, validator),
     hashAlgorithm |-> NewEnumCase("HashAlgorithm", accountKey.HashAlgo),
     weight |-> NewUFix64ValueWithInteger(accountKey.Weight),
     isRevoked |-> BoolValue(accountKey.IsRevoked)]

\* The absent key (a nil *AccountKey)
NoKey == [KeyIndex |-> -1]

\* The keys a host may hold
HostAccountKeys ==
    {AccountKey(i, PublicKey(kb, sa), h, w, r) :
        i \in KeyIndices, kb \in KeyBytes, sa \in {1}, h \in {1},
        w \in {1}, r \in BOOLEAN}

\* What a host returns when it returns a key together with an error
HostFailedKeys ==
    {HostValueAndError(AccountKey(0, PublicKey(kb, 1), 1, 1, FALSE)) :
        kb \in KeyBytes}

----------------------------------------------------------------------------
(* balance / availableBalance / storageUsed / storageCapacity *)

\* The raw UFix64 balances and the byte counts a host may return
Balances == {0, 3 * (Fix64Factor \div 2)}
StorageSizes == {0, 7}

UInt64Value(n) == [t |-> "UInt64", int |-> n]

\* Mutant: balance asks the host for the available balance.
BalanceGetFunctionAsksAvailable(addressValue, answer) ==
    LET get == HostCall("GetAccountAvailableBalance", <<addressValue.address>>,
                        answer.err,
                        IF answer.err THEN 0 ELSE answer.value)
    IN  IF get.err
        THEN Faulted(<<get>>, HostFault)
        ELSE Returned(<<get>>, UFix64Value(get.ret))

\* answer: what the host returns from GetAccountBalance
newAccountBalanceGetFunction(addressValue, answer) ==
    LET address == addressValue.address
        get == HostCall("GetAccountBalance", <<address>>, answer.err,
                        IF answer.err THEN 0 ELSE answer.value)
        balance == get.ret
    IN  IF get.err
        THEN Faulted(<<get>>, HostFault)
        ELSE Returned(<<get>>, UFix64Value(balance))

\* answer: what the host returns from GetAccountAvailableBalance
newAccountAvailableBalanceGetFunction(addressValue, answer) ==
    LET address == addressValue.address
        get == HostCall("GetAccountAvailableBalance", <<address>>, answer.err,
                        IF answer.err THEN 0 ELSE answer.value)
        balance == get.ret
    IN  IF get.err
        THEN Faulted(<<get>>, HostFault)
        ELSE Returned(<<get>>, UFix64Value(balance))

CommitStorage(commitContractUpdates, err) ==
    HostCall("CommitStorage", <<commitContractUpdates>>, err, <<>>)

\* Mutant: the storage is measured before the pending writes are committed.
StorageUsedGetFunctionMeasuresFirst(addressValue, commitErr, answer) ==
    LET commit == CommitStorage(FALSE, commitErr)
        get == HostCall("GetStorageUsed", <<addressValue.address>>, answer.err,
                        IF answer.err THEN 0 ELSE answer.value)
    IN  IF get.err
        THEN Faulted(<<get>>, HostFault)
        ELSE IF commit.err
        THEN Faulted(<<get, commit>>, HostFault)
        ELSE Returned(<<get, commit>>, UInt64Value(get.ret))

\* commitErr: the host answers CommitStorage with an error;
\* answer: what the host returns from GetStorageUsed
newStorageUsedGetFunction(addressValue, commitErr, answer) ==
    LET address == addressValue.address
        commitContractUpdates == FALSE
        commit == CommitStorage(commitContractUpdates, commitErr)
        get == HostCall("GetStorageUsed", <<address>>, answer.err,
                        IF answer.err THEN 0 ELSE answer.value)
        capacity == get.ret
    IN  IF commit.err
        THEN Faulted(<<commit>>, HostFault)
        ELSE IF get.err
        THEN Faulted(<<commit, get>>, HostFault)
        ELSE Returned(<<commit, get>>, UInt64Value(capacity))

newStorageCapacityGetFunction(addressValue, commitErr, answer) ==
    LET address == addressValue.address
        commitContractUpdates == FALSE
        commit == CommitStorage(commitContractUpdates, commitErr)
        get == HostCall("GetStorageCapacity", <<address>>, answer.err,
                        IF answer.err THEN 0 ELSE answer.value)
        capacity == get.ret
    IN  IF commit.err
        THEN Faulted(<<commit>>, HostFault)
        ELSE IF get.err
        THEN Faulted(<<commit, get>>, HostFault)
        ELSE Returned(<<commit, get>>, UInt64Value(capacity))

----------------------------------------------------------------------------
(* Account values: an account value is bound to an address and names the   *)
(* functions it exposes; its keys and contracts objects are built when the  *)
(* member is read.                                                          *)

newAuthAccountKeysValue(addressValue) ==
    [t |-> "AuthAccount.Keys",
     address |-> addressValue,
     functions |-> {"keys.add", "keys.get", "keys.revoke"}]

newAuthAccountContractsValue(addressValue) ==
    [t |-> "AuthAccount.Contracts",
     address |-> addressValue,
     functions |-> {"contracts.add", "contracts.update", "contracts.get",
                    "contracts.remove", "contracts.names"}]

\* Mutant: the keys object of the public account can revoke.
PublicAccountKeysValueWithRevoke(addressValue) ==
    [t |-> "PublicAccount.Keys",
     address |-> addressValue,
     functions |-> {"keys.get", "keys.revoke"}]

newPublicAccountKeysValue(addressValue) ==
    [t |-> "PublicAccount.Keys",
     address |-> addressValue,
     functions |-> {"keys.get"}]

newPublicAccountContractsValue(addressValue) ==
    [t |-> "PublicAccount.Contracts",
     address |-> addressValue,
     functions |-> {"contracts.get", "contracts.names"}]

NewAuthAccountValue(addressValue) ==
    [t |-> "AuthAccount",
     address |-> addressValue,
     functions |-> {"balance", "availableBalance", "storageUsed",
                    "storageCapacity", "addPublicKey", "removePublicKey"},
     objects |-> {"contracts", "keys"}]

NewPublicAccountValue(addressValue) ==
    [t |-> "PublicAccount",
     address |-> addressValue,
     functions |-> {"balance", "availableBalance", "storageUsed",
                    "storageCapacity"},
     objects |-> {"contracts", "keys"}]

\* Mutant: the balance is read from the host while the value is built.
GetAuthAccountFunctionReadsBalance(accountAddress) ==
    Returned(<<HostCall("GetAccountBalance", <<accountAddress.address>>, FALSE, 0)>>,
             NewAuthAccountValue(accountAddress))

\* getAuthAccount(address)
NewGetAuthAccountFunction(accountAddress) ==
    Returned(<<>>, NewAuthAccountValue(accountAddress))

\* getAccount(address)
NewGetAccountFunction(accountAddress) ==
    Returned(<<>>, NewPublicAccountValue(accountAddress))

\* Reading the keys / contracts member of an account value
GetObject(accountValue, object) ==
    Returned(<<>>,
             IF accountValue.t = "AuthAccount"
             THEN IF object = "keys"
                  THEN newAuthAccountKeysValue(accountValue.address)
                  ELSE newAuthAccountContractsValue(accountValue.address)
             ELSE IF object = "keys"
                  THEN newPublicAccountKeysValue(accountValue.address)
                  ELSE newPublicAccountContractsValue(accountValue.address))

----------------------------------------------------------------------------
(* AuthAccount(payer:) *)

\* Mutant: the event announces the payer's address.
AuthAccountConstructorEmitsPayer(payerAddressValue, answer) ==
    LET create == HostCall("CreateAccount", <<payerAddressValue.address>>,
                           answer.err,
                           IF answer.err THEN 0 ELSE answer.value)
        emit == EmitEvent(AccountCreatedEventType, <<payerAddressValue>>)
    IN  IF create.err
        THEN Faulted(<<create>>, HostFault)
        ELSE Returned(<<create, emit>>,
                      NewAuthAccountValue(AddressValue(create.ret)))

\* answer: what the host returns from CreateAccount
NewAuthAccountConstructor(payerAddressValue, answer) ==
    LET payerAddress == payerAddressValue.address
        create == HostCall("CreateAccount", <<payerAddress>>, answer.err,
                           IF answer.err THEN 0 ELSE answer.value)
        addressValue == AddressValue(create.ret)
        emit == EmitEvent(AccountCreatedEventType, <<addressValue>>)
    IN  IF create.err
        THEN Faulted(<<create>>, HostFault)
        ELSE Returned(<<create, emit>>, NewAuthAccountValue(addressValue))

----------------------------------------------------------------------------
(* AuthAccount.addPublicKey / removePublicKey (encoded keys) *)

\* Mutant: the event is emitted before the host is asked to add the key.
AddPublicKeyFunctionEmitsFirst(addressValue, publicKeyValue, answer) ==
    LET add == HostCall("AddEncodedAccountKey",
                        <<addressValue.address,
                          ByteArrayValueToByteSlice(publicKeyValue)>>,
                        answer.err, <<>>)
        emit == EmitEvent(AccountKeyAddedEventType,
                          <<addressValue, publicKeyValue>>)
    IN  IF add.err
        THEN Faulted(<<emit, add>>, HostFault)
        ELSE Returned(<<emit, add>>, VoidValue)

\* Mutant: the key is given to the host in another encoding, with a length
\* in front.
AddPublicKeyFunctionReencodesKey(addressValue, publicKeyValue, answer) ==
    LET add == HostCall("AddEncodedAccountKey",
                        <<addressValue.address,
                          <<"len">> \o ByteArrayValueToByteSlice(publicKeyValue)>>,
                        answer.err, <<>>)
        emit == EmitEvent(AccountKeyAddedEventType,
                          <<addressValue, publicKeyValue>>)
    IN  IF add.err
        THEN Faulted(<<add>>, HostFault)
        ELSE Returned(<<add, emit>>, VoidValue)

newAddPublicKeyFunction(addressValue, publicKeyValue, answer) ==
    LET address == addressValue.address
        publicKey == ByteArrayValueToByteSlice(publicKeyValue)
        add == HostCall("AddEncodedAccountKey", <<address, publicKey>>,
                        answer.err, <<>>)
        emit == EmitEvent(AccountKeyAddedEventType,
                          <<addressValue, publicKeyValue>>)
    IN  IF add.err
        THEN Faulted(<<add>>, HostFault)
        ELSE Returned(<<add, emit>>, VoidValue)

\* Mutant: the event announces the index that was asked for.
RemovePublicKeyFunctionEmitsIndex(addressValue, indexValue, answer) ==
    LET revoke == HostCall("RevokeEncodedAccountKey",
                           <<addressValue.address, indexValue.int>>,
                           answer.err,
                           ReturnOf(answer, <<>>))
        emit == EmitEvent(AccountKeyRemovedEventType,
                          <<addressValue, indexValue>>)
    IN  IF revoke.err
        THEN Faulted(<<revoke>>, HostFault)
        ELSE Returned(<<revoke, emit>>, VoidValue)

newRemovePublicKeyFunction(addressValue, indexValue, answer) ==
    LET address == addressValue.address
        revoke == HostCall("RevokeEncodedAccountKey", <<address, indexValue.int>>,
                           answer.err,
                           ReturnOf(answer, <<>>))
        publicKeyValue == ByteSliceToByteArrayValue(revoke.ret)
        emit == EmitEvent(AccountKeyRemovedEventType,
                          <<addressValue, publicKeyValue>>)
    IN  IF revoke.err
        THEN Faulted(<<revoke>>, HostFault)
        ELSE Returned(<<revoke, emit>>, VoidValue)

----------------------------------------------------------------------------
(* AuthAccount.keys.add / get / revoke, PublicAccount.keys.get *)

\* Mutant: the event is emitted before the host is asked to add the key.
KeysAddFunctionEmitsFirst(addressValue, publicKeyValue, hashAlgoValue, weightValue, answer) ==
    LET add == HostCall("AddAccountKey",
                        <<addressValue.address,
                          NewPublicKeyFromValue(publicKeyValue),
                          NewHashAlgorithmFromValue(hashAlgoValue),
                          UFix64ToInt(weightValue)>>,
                        answer.err,
                        ReturnOf(answer, NoKey))
        emit == EmitEvent(AccountKeyAddedEventType,
                          <<addressValue, publicKeyValue>>)
    IN  IF add.err
        THEN Faulted(<<emit, add>>, HostFault)
        ELSE IF add.ret = NoKey
        THEN Faulted(<<emit, add>>, NilDereferenceFault)
        ELSE Returned(<<emit, add>>,
                      NewAccountKeyValue(add.ret, "PublicKeyValidationHandler"))

newAccountKeysAddFunction(addressValue, publicKeyValue, hashAlgoValue, weightValue, answer) ==
    LET address == addressValue.address
        publicKey == NewPublicKeyFromValue(publicKeyValue)
        hashAlgo == NewHashAlgorithmFromValue(hashAlgoValue)
        weight == UFix64ToInt(weightValue)
        add == HostCall("AddAccountKey", <<address, publicKey, hashAlgo, weight>>,
                        answer.err,
                        ReturnOf(answer, NoKey))
        accountKey == add.ret
        emit == EmitEvent(AccountKeyAddedEventType,
                          <<addressValue, publicKeyValue>>)
    IN  IF add.err
        THEN Faulted(<<add>>, HostFault)
        ELSE IF accountKey = NoKey
        \* the key is not looked at before the event is emitted; building the
        \* value then reads accountKey.KeyIndex
        THEN Faulted(<<add, emit>>, NilDereferenceFault)
        ELSE Returned(<<add, emit>>,
                      NewAccountKeyValue(accountKey, "PublicKeyValidationHandler"))

\* Mutant: the key is validated by the host again.
KeysGetFunctionValidates(addressValue, indexValue, answer) ==
    LET get == HostCall("GetAccountKey", <<addressValue.address, indexValue.int>>,
                        answer.err,
                        ReturnOf(answer, NoKey))
    IN  IF get.err
        THEN Faulted(<<get>>, HostFault)
        ELSE IF get.ret = NoKey
        THEN Returned(<<get>>, NilValue)
        ELSE Returned(<<get>>,
                      SomeValue(NewAccountKeyValue(get.ret,
                                                   "PublicKeyValidationHandler")))

\* answer: what the host returns from GetAccountKey
newAccountKeysGetFunction(addressValue, indexValue, answer) ==
    LET address == addressValue.address
        index == indexValue.int
        get == HostCall("GetAccountKey", <<address, index>>,
                        answer.err,
                        ReturnOf(answer, NoKey))
        accountKey == get.ret
    IN  IF get.err
        THEN Faulted(<<get>>, HostFault)
        ELSE IF accountKey = NoKey
        THEN Returned(<<get>>, NilValue)
        ELSE Returned(<<get>>,
                      SomeValue(NewAccountKeyValue(accountKey, "assumed valid")))

\* Mutant: the key returned is marked revoked here.
KeysRevokeFunctionFlipsFlag(addressValue, indexValue, answer) ==
    LET revoke == HostCall("RevokeAccountKey",
                           <<addressValue.address, indexValue.int>>,
                           answer.err,
                           ReturnOf(answer, NoKey))
        emit == EmitEvent(AccountKeyRemovedEventType,
                          <<addressValue, indexValue>>)
    IN  IF revoke.err
        THEN Faulted(<<revoke>>, HostFault)
        ELSE IF revoke.ret = NoKey
        THEN Returned(<<revoke>>, NilValue)
        ELSE Returned(<<revoke, emit>>,
                      SomeValue(NewAccountKeyValue(
                          [revoke.ret EXCEPT !.IsRevoked = TRUE],
                          "assumed valid")))

\* Mutant: an error of the host is answered as a key that is not there.
KeysRevokeFunctionHidesError(addressValue, indexValue, answer) ==
    LET revoke == HostCall("RevokeAccountKey",
                           <<addressValue.address, indexValue.int>>,
                           answer.err,
                           ReturnOf(answer, NoKey))
        emit == EmitEvent(AccountKeyRemovedEventType,
                          <<addressValue, indexValue>>)
    IN  IF revoke.err \/ revoke.ret = NoKey
        THEN Returned(<<revoke>>, NilValue)
        ELSE Returned(<<revoke, emit>>,
                      SomeValue(NewAccountKeyValue(revoke.ret, "assumed valid")))

newAccountKeysRevokeFunction(addressValue, indexValue, answer) ==
    LET address == addressValue.address
        index == indexValue.int
        revoke == HostCall("RevokeAccountKey", <<address, index>>,
                           answer.err,
                           ReturnOf(answer, NoKey))
        accountKey == revoke.ret
        emit == EmitEvent(AccountKeyRemovedEventType,
                          <<addressValue, indexValue>>)
    IN  IF revoke.err
        THEN Faulted(<<revoke>>, HostFault)
        ELSE IF accountKey = NoKey
        THEN Returned(<<revoke>>, NilValue)
        ELSE Returned(<<revoke, emit>>,
                      SomeValue(NewAccountKeyValue(accountKey, "assumed valid")))

----------------------------------------------------------------------------
(* A host that keeps the keys of each account in a list: the key of index i *)
(* is the (i+1)-th of the list, a revoked key stays in its slot with its    *)
(* flag set, and AddAccountKey appends.                                      *)

\* The key in slot index of the account, NoKey when the slot is empty
KeyAt(store, address, index) ==
    IF index + 1 <= Len(store[address])
    THEN store[address][index + 1]
    ELSE NoKey

RECURSIVE CountKeys(_, _)
CountKeys(store, addresses) ==
    IF addresses = {}
    THEN 0
    ELSE LET a == CHOOSE x \in addresses : TRUE
         IN  Len(store[a]) + CountKeys(store, addresses \ {a})

\* The host has no room for another key of the account
KeyStoreFull(store, address) ==
    \/ Len(store[address]) > MaxKeyIndex
    \/ CountKeys(store, Addresses) >= MaxKeys

\* What the host answers to AddAccountKey(address, publicKey, hashAlgo, weight)
AddAccountKey(store, address, publicKey, hashAlgo, weight, err) ==
    IF err \/ KeyStoreFull(store, address)
    THEN HostError
    ELSE HostValue(AccountKey(Len(store[address]), publicKey, hashAlgo,
                              weight, FALSE))

\* What the host answers to GetAccountKey(address, index)
GetAccountKey(store, address, index, err) ==
    IF err THEN HostError ELSE HostValue(KeyAt(store, address, index))

\* What the host answers to RevokeAccountKey(address, index)
RevokeAccountKey(store, address, index, err) ==
    IF err
    THEN HostError
    ELSE IF KeyAt(store, address, index) = NoKey
    THEN HostValue(NoKey)
    ELSE HostValue([KeyAt(store, address, index) EXCEPT !.IsRevoked = TRUE])

\* The keys the host holds after it answered the call
KeyStoreAfter(store, call) ==
    IF call.err \/ call.ret = NoKey
    THEN store
    ELSE IF call.call = "AddAccountKey"
    THEN [store EXCEPT ![call.with[1]] = Append(@, call.ret)]
    ELSE IF call.call = "RevokeAccountKey"
    THEN [store EXCEPT ![call.with[1]][call.ret.KeyIndex + 1] = call.ret]
    ELSE store

----------------------------------------------------------------------------
(* A host that keeps the encoded keys of each account in a list of slots:  *)
(* AddEncodedAccountKey appends, RevokeEncodedAccountKey(index) marks the   *)
(* key in slot index revoked and returns it.                                *)

EncodedKeySlot(key, revoked) == [key |-> key, revoked |-> revoked]

\* What the host answers to AddEncodedAccountKey(address, key)
AddEncodedAccountKey(store, address, key, err) ==
    IF \/ err
       \/ Len(store[address]) > MaxKeyIndex
       \/ CountKeys(store, Addresses) >= MaxKeys
    THEN HostError
    ELSE HostValue(<<>>)

\* What the host answers to RevokeEncodedAccountKey(address, index)
RevokeEncodedAccountKey(store, address, index, err) ==
    IF err \/ index + 1 > Len(store[address])
    THEN HostError
    ELSE HostValue(store[address][index + 1].key)

\* The encoded keys the host holds after it answered the call
EncodedKeysAfter(store, call) ==
    IF call.err
    THEN store
    ELSE IF call.call = "AddEncodedAccountKey"
    THEN [store EXCEPT ![call.with[1]] =
             Append(@, EncodedKeySlot(call.with[2], FALSE))]
    ELSE IF call.call = "RevokeEncodedAccountKey"
    THEN [store EXCEPT ![call.with[1]][call.with[2] + 1].revoked = TRUE]
    ELSE store

----------------------------------------------------------------------------
(* The record of a capability call, and the step that makes one *)

CallRecord(op, self, params, out) ==
    [fault |-> out.fault,
     op |-> op,
     params |-> params,
     result |-> out.result,
     self |-> self,
     tick |-> 1 - last.tick,
     trace |-> out.trace]

\* One capability call through an account value bound to address `self`.
Invoke(op, self, params, out) ==
    /\ contracts' = out.contracts
    /\ recorded' = out.recorded
    /\ accountKeys' = accountKeys
    /\ encodedKeys' = encodedKeys
    /\ last' = CallRecord(op, self, params, out)
    /\ UNCHANGED <<calls, wire>>

\* One call of a function of the keys object, on the host that keeps keys
InvokeOnStoredKeys(op, self, params, out) ==
    /\ contracts' = out.contracts
    /\ recorded' = out.recorded
    /\ accountKeys' = KeyStoreAfter(accountKeys, out.trace[1])
    /\ encodedKeys' = encodedKeys
    /\ last' = CallRecord(op, self, params, out)
    /\ UNCHANGED <<calls, wire>>

\* One call of addPublicKey / removePublicKey, on the host that keeps
\* encoded keys
InvokeOnEncodedKeys(op, self, params, out) ==
    /\ contracts' = out.contracts
    /\ recorded' = out.recorded
    /\ accountKeys' = accountKeys
    /\ encodedKeys' = EncodedKeysAfter(encodedKeys, out.trace[1])
    /\ last' = CallRecord(op, self, params, out)
    /\ UNCHANGED <<calls, wire>>

ContractsAdd ==
    \E a \in Addresses, n \in Names, c \in Codes, getErr \in BOOLEAN :
        Invoke("contracts.add", a, <<n, c>>,
               newAuthAccountContractsChangeFunction(
                   AddressValue(a), FALSE, StringValue(n),
                   ByteSliceToByteArrayValue(c), getErr))

ContractsUpdate ==
    \E a \in Addresses, n \in Names, c \in Codes, getErr \in BOOLEAN :
        Invoke("contracts.update", a, <<n, c>>,
               newAuthAccountContractsChangeFunction(
                   AddressValue(a), TRUE, StringValue(n),
                   ByteSliceToByteArrayValue(c), getErr))

ContractsGet ==
    \E a \in Addresses, n \in Names, getErr \in BOOLEAN :
        Invoke("contracts.get", a, <<n>>,
               newAccountContractsGetFunction(
                   AddressValue(a), StringValue(n), getErr))

ContractsRemove ==
    \E a \in Addresses, n \in Names, getErr \in BOOLEAN, removeErr \in BOOLEAN :
        Invoke("contracts.remove", a, <<n>>,
               newAuthAccountContractsRemoveFunction(
                   AddressValue(a), StringValue(n), getErr, removeErr))

ContractsNames ==
    \E a \in Addresses,
       answer \in {HostError} \cup {HostValue(names) : names \in NameLists} :
        Invoke("contracts.names", a, <<>>,
               newAccountContractsGetNamesFunction(AddressValue(a), answer))

CreateAccount ==
    \E payer \in Addresses,
       answer \in {HostError} \cup {HostValue(a) : a \in Addresses} :
        Invoke("AuthAccount", payer, <<>>,
               NewAuthAccountConstructor(AddressValue(payer), answer))

AddPublicKey ==
    \E a \in Addresses, kb \in KeyBytes,
       answer \in {HostError, HostValue(<<>>)} :
        Invoke("addPublicKey", a, <<kb>>,
               newAddPublicKeyFunction(
                   AddressValue(a), ByteSliceToByteArrayValue(kb), answer))

RemovePublicKey ==
    \E a \in Addresses, i \in KeyIndices,
       answer \in {HostError, HostValueAndError(<<"k1">>)}
                  \cup {HostValue(kb) : kb \in KeyBytes \cup {<<>>}} :
        Invoke("removePublicKey", a, <<i>>,
               newRemovePublicKeyFunction(AddressValue(a), IntValue(i), answer))

KeysAdd ==
    \E a \in Addresses, kb \in KeyBytes, sa \in SignAlgos, h \in HashAlgos,
       w \in Weights,
       answer \in {HostError, HostValue(NoKey)} \cup HostFailedKeys
                  \cup {HostValue(k) : k \in HostAccountKeys} :
        Invoke("keys.add", a, <<kb, sa, h, w>>,
               newAccountKeysAddFunction(
                   AddressValue(a),
                   NewPublicKeyValue(PublicKey(kb, sa), "PublicKeyValidationHandler"),
                   NewEnumCase("HashAlgorithm", h),
                   UFix64Value(w),
                   answer))

KeysGet ==
    \E a \in Addresses, i \in KeyIndices,
       answer \in {HostError, HostValue(NoKey)} \cup HostFailedKeys
                  \cup {HostValue(k) : k \in HostAccountKeys} :
        Invoke("keys.get", a, <<i>>,
               newAccountKeysGetFunction(AddressValue(a), IntValue(i), answer))

KeysRevoke ==
    \E a \in Addresses, i \in KeyIndices,
       answer \in {HostError, HostValue(NoKey)} \cup HostFailedKeys
                  \cup {HostValue(k) : k \in HostAccountKeys} :
        Invoke("keys.revoke", a, <<i>>,
               newAccountKeysRevokeFunction(AddressValue(a), IntValue(i), answer))

Balance ==
    \E a \in Addresses,
       answer \in {HostError} \cup {HostValue(b) : b \in Balances} :
        Invoke("balance", a, <<>>,
               newAccountBalanceGetFunction(AddressValue(a), answer))

AvailableBalance ==
    \E a \in Addresses,
       answer \in {HostError} \cup {HostValue(b) : b \in Balances} :
        Invoke("availableBalance", a, <<>>,
               newAccountAvailableBalanceGetFunction(AddressValue(a), answer))

StorageUsed ==
    \E a \in Addresses, commitErr \in BOOLEAN,
       answer \in {HostError} \cup {HostValue(n) : n \in StorageSizes} :
        Invoke("storageUsed", a, <<>>,
               newStorageUsedGetFunction(AddressValue(a), commitErr, answer))

StorageCapacity ==
    \E a \in Addresses, commitErr \in BOOLEAN,
       answer \in {HostError} \cup {HostValue(n) : n \in StorageSizes} :
        Invoke("storageCapacity", a, <<>>,
               newStorageCapacityGetFunction(AddressValue(a), commitErr, answer))

GetAuthAccount ==
    \E a \in Addresses :
        Invoke("getAuthAccount", a, <<>>,
               NewGetAuthAccountFunction(AddressValue(a)))

GetAccount ==
    \E a \in Addresses :
        Invoke("getAccount", a, <<>>,
               NewGetAccountFunction(AddressValue(a)))

\* Reading the keys or the contracts member of an account value
ReadObject ==
    \E a \in Addresses :
        \E accountValue \in {NewAuthAccountValue(AddressValue(a)),
                             NewPublicAccountValue(AddressValue(a))} :
        \E object \in accountValue.objects :
            Invoke(accountValue.t \o "." \o object, a, <<>>,
                   GetObject(accountValue, object))

----------------------------------------------------------------------------
(* Calls through a PublicAccount value: the functions it exposes, and the  *)
(* functions its keys and contracts objects expose                          *)

\* The arguments interpreted code may pass to a function
ArgumentsOf(f) ==
    CASE f \in {"addPublicKey"} -> {<<kb>> : kb \in KeyBytes}
      [] f \in {"removePublicKey", "keys.get", "keys.revoke"} ->
             {<<i>> : i \in KeyIndices}
      [] f = "keys.add" -> KeyBytes \X SignAlgos \X HashAlgos \X Weights
      [] f \in {"contracts.add", "contracts.update"} -> Names \X Codes
      [] f \in {"contracts.get", "contracts.remove"} -> {<<n>> : n \in Names}
      [] OTHER -> {<<>>}

\* What the host may answer during a call of a function: err, whether the
\* first fallible call of CommitStorage or GetAccountContractCode fails, and
\* the answer to the other fallible call
HostAnswersOf(f) ==
    LET values ==
            CASE f \in {"balance", "availableBalance"} -> Balances
              [] f \in {"storageUsed", "storageCapacity"} -> StorageSizes
              [] f \in {"keys.get", "keys.revoke"} -> HostAccountKeys \cup {NoKey}
              [] f = "keys.add" -> HostAccountKeys
              [] f = "removePublicKey" -> KeyBytes
              [] f = "contracts.names" -> NameLists
              [] OTHER -> {<<>>}
        firstFails ==
            IF f \in {"storageUsed", "storageCapacity", "contracts.add",
                      "contracts.update", "contracts.get", "contracts.remove"}
            THEN BOOLEAN
            ELSE {FALSE}
        answers ==
            IF f \in {"contracts.add", "contracts.update", "contracts.get"}
            THEN {HostValue(<<>>)}
            ELSE {HostError} \cup {HostValue(v) : v \in values}
    IN  [err : firstFails, answer : answers]

\* The call of function f of an account value, or of its keys or contracts
\* object, bound to addressValue
Call(f, addressValue, arguments, host) ==
    CASE f = "balance" ->
             newAccountBalanceGetFunction(addressValue, host.answer)
      [] f = "availableBalance" ->
             newAccountAvailableBalanceGetFunction(addressValue, host.answer)
      [] f = "storageUsed" ->
             newStorageUsedGetFunction(addressValue, host.err, host.answer)
      [] f = "storageCapacity" ->
             newStorageCapacityGetFunction(addressValue, host.err, host.answer)
      [] f = "addPublicKey" ->
             newAddPublicKeyFunction(
                 addressValue, ByteSliceToByteArrayValue(arguments[1]), host.answer)
      [] f = "removePublicKey" ->
             newRemovePublicKeyFunction(
                 addressValue, IntValue(arguments[1]), host.answer)
      [] f = "keys.add" ->
             newAccountKeysAddFunction(
                 addressValue,
                 NewPublicKeyValue(PublicKey(arguments[1], arguments[2]),
                                   "PublicKeyValidationHandler"),
                 NewEnumCase("HashAlgorithm", arguments[3]),
                 UFix64Value(arguments[4]),
                 host.answer)
      [] f = "keys.get" ->
             newAccountKeysGetFunction(
                 addressValue, IntValue(arguments[1]), host.answer)
      [] f = "keys.revoke" ->
             newAccountKeysRevokeFunction(
                 addressValue, IntValue(arguments[1]), host.answer)
      [] f \in {"contracts.add", "contracts.update"} ->
             newAuthAccountContractsChangeFunction(
                 addressValue, f = "contracts.update", StringValue(arguments[1]),
                 ByteSliceToByteArrayValue(arguments[2]), host.err)
      [] f = "contracts.get" ->
             newAccountContractsGetFunction(
                 addressValue, StringValue(arguments[1]), host.err)
      [] f = "contracts.remove" ->
             newAuthAccountContractsRemoveFunction(
                 addressValue, StringValue(arguments[1]), host.err, host.answer.err)
      [] f = "contracts.names" ->
             newAccountContractsGetNamesFunction(addressValue, host.answer)

\* A call of function f through a PublicAccount value
InvokePublic(f, a) ==
    \E arguments \in ArgumentsOf(f), host \in HostAnswersOf(f) :
        Invoke("PublicAccount." \o f, a, arguments,
               Call(f, AddressValue(a), arguments, host))

PublicAccountFunction ==
    \E a \in Addresses :
        \E f \in NewPublicAccountValue(AddressValue(a)).functions :
            InvokePublic(f, a)

PublicAccountKeys ==
    \E a \in Addresses :
        \E f \in newPublicAccountKeysValue(AddressValue(a)).functions :
            InvokePublic(f, a)

PublicAccountContracts ==
    \E a \in Addresses :
        \E f \in newPublicAccountContractsValue(AddressValue(a)).functions :
            InvokePublic(f, a)

----------------------------------------------------------------------------
(* A host that panics, and wrapPanic *)

\* The call sites of the host's methods that are inside wrapPanic(func()
\* {...}): all but those of EmitEvent, RecordContractRemoval and
\* CommitStorage, and that of GetAccountContractCode in contracts.add and
\* contracts.update.
InsideWrapPanic(op, method) ==
    /\ method \notin {"EmitEvent", "RecordContractRemoval", "CommitStorage"}
    /\ ~(/\ op \in {"contracts.add", "contracts.update"}
         /\ method = "GetAccountContractCode")

\* The host call that did not return: the host panicked in it
Panicking(call) ==
    [call |-> call.call, with |-> call.with, err |-> FALSE, ret |-> <<>>,
     panic |-> TRUE]

\* wrapPanic raises a panic of the host again as an error of the host; a
\* panic outside wrapPanic goes on as it is
PanicFault(op, method) ==
    IF InsideWrapPanic(op, method) THEN HostFault ELSE HostPanicFault

\* The outcome of a call in whose i-th host call the host panics, given
\* the outcome out of the call on a host that does not
WithHostPanic(op, out, i) ==
    LET before == SubSeq(out.trace, 1, i - 1)
    IN  Outcome(Append(before, Panicking(out.trace[i])),
                PanicFault(op, out.trace[i].call),
                NoValue,
                IF \E j \in 1..Len(before) :
                       before[j].call = "RemoveAccountContractCode"
                THEN out.contracts ELSE contracts,
                IF \E j \in 1..Len(before) :
                       before[j].call = "RecordContractRemoval"
                THEN out.recorded ELSE recorded)

\* A capability call during which the host panics
HostPanics ==
    \/ \E a \in Addresses, n \in ContractNames, c \in Codes \ {<<>>},
          isUpdate \in BOOLEAN :
           LET op == IF isUpdate THEN "contracts.update" ELSE "contracts.add"
               out == newAuthAccountContractsChangeFunction(
                          AddressValue(a), isUpdate, StringValue(n),
                          ByteSliceToByteArrayValue(c), FALSE)
           IN  \E i \in 1..Len(out.trace) :
                   Invoke(op, a, <<n, c>>, WithHostPanic(op, out, i))
    \/ \E a \in Addresses, n \in ContractNames :
           LET out == newAccountContractsGetFunction(
                          AddressValue(a), StringValue(n), FALSE)
           IN  \E i \in 1..Len(out.trace) :
                   Invoke("contracts.get", a, <<n>>,
                          WithHostPanic("contracts.get", out, i))
    \/ \E a \in Addresses, n \in ContractNames :
           LET out == newAuthAccountContractsRemoveFunction(
                          AddressValue(a), StringValue(n), FALSE, FALSE)
           IN  \E i \in 1..Len(out.trace) :
                   Invoke("contracts.remove", a, <<n>>,
                          WithHostPanic("contracts.remove", out, i))
    \/ \E a \in Addresses, n \in StorageSizes :
           LET out == newStorageUsedGetFunction(
                          AddressValue(a), FALSE, HostValue(n))
           IN  \E i \in 1..Len(out.trace) :
                   Invoke("storageUsed", a, <<>>,
                          WithHostPanic("storageUsed", out, i))

StoredAddPublicKey ==
    \E a \in Addresses, kb \in KeyBytes, err \in BOOLEAN :
        InvokeOnEncodedKeys("addPublicKey", a, <<kb>>,
            newAddPublicKeyFunction(
                AddressValue(a), ByteSliceToByteArrayValue(kb),
                AddEncodedAccountKey(encodedKeys, a, kb, err)))

StoredRemovePublicKey ==
    \E a \in Addresses, i \in KeyIndices, err \in BOOLEAN :
        InvokeOnEncodedKeys("removePublicKey", a, <<i>>,
            newRemovePublicKeyFunction(
                AddressValue(a), IntValue(i),
                RevokeEncodedAccountKey(encodedKeys, a, i, err)))

StoredKeysAdd ==
    \E a \in Addresses, kb \in KeyBytes, err \in BOOLEAN :
        LET sa == CHOOSE x \in SignAlgos : TRUE
            h == CHOOSE x \in HashAlgos : TRUE
            w == CHOOSE x \in Weights : TRUE
        IN  InvokeOnStoredKeys("keys.add", a, <<kb, sa, h, w>>,
                newAccountKeysAddFunction(
                    AddressValue(a),
                    NewPublicKeyValue(PublicKey(kb, sa), "PublicKeyValidationHandler"),
                    NewEnumCase("HashAlgorithm", h),
                    UFix64Value(w),
                    AddAccountKey(accountKeys, a, PublicKey(kb, sa), h,
                                  UFix64ToInt(UFix64Value(w)), err)))

StoredKeysGet ==
    \E a \in Addresses, i \in KeyIndices, err \in BOOLEAN :
        InvokeOnStoredKeys("keys.get", a, <<i>>,
            newAccountKeysGetFunction(
                AddressValue(a), IntValue(i),
                GetAccountKey(accountKeys, a, i, err)))

StoredKeysRevoke ==
    \E a \in Addresses, i \in KeyIndices, err \in BOOLEAN :
        InvokeOnStoredKeys("keys.revoke", a, <<i>>,
            newAccountKeysRevokeFunction(
                AddressValue(a), IntValue(i),
                RevokeAccountKey(accountKeys, a, i, err)))

----------------------------------------------------------------------------
(* The Transport Proxy: ProxyInterface, the implementation of the host      *)
(* interface that sends each call over a connection to a far end.           *)

\* The execution contexts that call the proxy; each is in at most one call
Callers == {"c1", "c2"}

\* The connections that are opened in one behaviour
MaxConns == 3
Connections == 1..MaxConns

Locations == {"S.test", "A.1.Foo"}
LogStrings == {"hello"}

\* The value bytes a response may carry
ResponseValues == {<<>>, <<"c">>}

InterfaceMethodResolveLocation == "InterfaceMethodResolveLocation"
InterfaceMethodGetCode == "InterfaceMethodGetCode"
InterfaceMethodGetProgram == "InterfaceMethodGetProgram"
InterfaceMethodProgramLog == "InterfaceMethodProgramLog"

\* utils.TestLocation
TestLocation == "S.test"

\* anypb.Any: a serialized value and the name of its type
AnypbAny(typeUrl, value) == [typeUrl |-> typeUrl, value |-> value]

\* bridge.NewLocation: the location as a serialized value, or an error
NewLocation(location, err) ==
    IF err
    THEN [err |-> TRUE]
    ELSE [err |-> FALSE, value |-> AnypbAny("bridge.Location", location)]

\* bridge.NewString
NewString(s) == [t |-> "bridge.String", content |-> s]

\* anypb.New: the message as a serialized value, or an error
AnyNew(message, err) ==
    IF err
    THEN [err |-> TRUE]
    ELSE [err |-> FALSE, value |-> AnypbAny(message.t, message.content)]

\* bridge.NewRequestMessage: the request envelope
NewRequestMessage(methodId, parameter) ==
    [methodId |-> methodId, parameter |-> parameter]

\* The response envelope
ResponseMessage(value) == [res |-> [value |-> value]]

GetRes(msg) == msg.res

\* A connection: the envelopes written to it by the proxy (sent) and by the
\* far end (replies), and how many of the replies the proxy has read
Unopened == [status |-> "unopened", sent |-> <<>>, replies |-> <<>>, read |-> 0]
Opened == [status |-> "open", sent |-> <<>>, replies |-> <<>>, read |-> 0]
Dropped == [status |-> "dropped", sent |-> <<>>, replies |-> <<>>, read |-> 0]

CanOpenConnection == \E k \in Connections : wire[k].status = "unopened"

\* NewInterfaceConnection: a connection that was not open before
NewInterfaceConnection ==
    CHOOSE k \in Connections :
        /\ wire[k].status = "unopened"
        /\ \A j \in 1..(k - 1) : wire[j].status # "unopened"

\* WriteMessage(conn, request): the connections after the write
WriteMessage(conn, request) ==
    [wire EXCEPT ![conn].sent = Append(@, request)]

\* ReadMessage(conn) blocks until the far end has written an envelope that
\* was not read yet, and returns it
CanReadMessage(conn) == Len(wire[conn].replies) > wire[conn].read

ReadMessage(conn) == wire[conn].replies[wire[conn].read + 1]

AfterReadMessage(conn) == [wire EXCEPT ![conn].read = @ + 1]

NoResult == [t |-> "none"]
NilResult == [t |-> "nil"]

\* A caller that is in no call
Idle ==
    [pc |-> "idle", method |-> "none", argument |-> "none", conn |-> 0,
     err |-> FALSE, result |-> NoResult]

\* Mutant: a caller that has a connection from its previous call uses it
\* again.
OpenReusesConnection(c, method, argument) ==
    /\ calls[c].pc \in {"idle", "returned", "panicked"}
    /\ CanOpenConnection
    /\ LET conn == IF calls[c].conn \in Connections
                   THEN calls[c].conn
                   ELSE NewInterfaceConnection
       IN  /\ calls' = [calls EXCEPT ![c] =
                  [pc |-> "opened", method |-> method, argument |-> argument,
                   conn |-> conn, err |-> FALSE, result |-> NoResult]]
           /\ wire' = [wire EXCEPT ![conn] = Opened]
    /\ UNCHANGED capabilityVars

\* The first statement of a method that uses the wire:
\* conn := NewInterfaceConnection().  The connection of the caller's
\* previous call is referred to no more.
Open(c, method, argument) ==
    /\ calls[c].pc \in {"idle", "returned", "panicked"}
    /\ CanOpenConnection
    /\ LET conn == NewInterfaceConnection
       IN  /\ calls' = [calls EXCEPT ![c] =
                  [pc |-> "opened", method |-> method, argument |-> argument,
                   conn |-> conn, err |-> FALSE, result |-> NoResult]]
           /\ wire' = [k \in Connections |->
                          IF k = conn THEN Opened
                          ELSE IF k = calls[c].conn THEN Dropped
                          ELSE wire[k]]
    /\ UNCHANGED capabilityVars

\* The parameter is encoded; if that failed the method returns the error,
\* else the request envelope is built and written to the connection.
Send(c, methodId, param) ==
    /\ calls[c].pc = "opened"
    /\ IF param.err
       THEN /\ calls' = [calls EXCEPT ![c].pc = "returned", ![c].err = TRUE]
            /\ wire' = wire
       ELSE /\ calls' = [calls EXCEPT ![c].pc = "written"]
            /\ wire' = WriteMessage(calls[c].conn,
                                    NewRequestMessage(methodId, param.value))
    /\ UNCHANGED capabilityVars

\* One response envelope is read from the connection, and the method
\* returns the result it made of it.
Receive(c, result) ==
    /\ calls[c].pc = "written"
    /\ CanReadMessage(calls[c].conn)
    /\ calls' = [calls EXCEPT ![c].pc = "returned", ![c].result = result]
    /\ wire' = AfterReadMessage(calls[c].conn)
    /\ UNCHANGED capabilityVars

\* The response is not looked at: a list of the one placeholder location
ResolveLocationResult(msg) ==
    [t |-> "locations",
     value |-> <<[Location |-> TestLocation, Identifiers |-> <<>>]>>]

\* Mutant: the response, which is not looked at, is not read either.
ResolveLocationSkipsRead(c) ==
    \/ \E location \in Locations : Open(c, "ResolveLocation", location)
    \/ /\ calls[c].method = "ResolveLocation"
       /\ calls[c].pc = "opened"
       /\ calls' = [calls EXCEPT ![c].pc = "returned",
                                 ![c].result = ResolveLocationResult(<<>>)]
       /\ wire' = WriteMessage(calls[c].conn,
                      NewRequestMessage(InterfaceMethodResolveLocation,
                          NewLocation(calls[c].argument, FALSE).value))
       /\ UNCHANGED capabilityVars
    \/ /\ calls[c].method = "ResolveLocation"
       /\ Receive(c, ResolveLocationResult(ReadMessage(calls[c].conn)))

ResolveLocation(c) ==
    \/ \E location \in Locations : Open(c, "ResolveLocation", location)
    \/ /\ calls[c].method = "ResolveLocation"
       /\ \E err \in BOOLEAN :
              Send(c, InterfaceMethodResolveLocation,
                   NewLocation(calls[c].argument, err))
    \/ /\ calls[c].method = "ResolveLocation"
       /\ Receive(c, ResolveLocationResult(ReadMessage(calls[c].conn)))

\* Mutant: a response without value bytes is taken for a failure of the far
\* end, and no bytes are returned.
GetCodeResultChecksValue(msg) ==
    IF GetRes(msg).value = <<>>
    THEN NilResult
    ELSE [t |-> "bytes", value |-> GetRes(msg).value]

\* []byte(msg.GetRes().Value)
GetCodeResult(msg) == [t |-> "bytes", value |-> GetRes(msg).value]

\* Mutant: the request names the method next to it, GetProgram.
GetCodeAsksForProgram(c) ==
    \/ \E location \in Locations : Open(c, "GetCode", location)
    \/ /\ calls[c].method = "GetCode"
       /\ \E err \in BOOLEAN :
              Send(c, InterfaceMethodGetProgram,
                   NewLocation(calls[c].argument, err))
    \/ /\ calls[c].method = "GetCode"
       /\ Receive(c, GetCodeResult(ReadMessage(calls[c].conn)))

GetCode(c) ==
    \/ \E location \in Locations : Open(c, "GetCode", location)
    \/ /\ calls[c].method = "GetCode"
       /\ \E err \in BOOLEAN :
              Send(c, InterfaceMethodGetCode,
                   NewLocation(calls[c].argument, err))
    \/ /\ calls[c].method = "GetCode"
       /\ Receive(c, GetCodeResult(ReadMessage(calls[c].conn)))

\* The response is not looked at: nil, nil
GetProgramResult(msg) == NilResult

GetProgram(c) ==
    \/ \E location \in Locations : Open(c, "GetProgram", location)
    \/ /\ calls[c].method = "GetProgram"
       /\ \E err \in BOOLEAN :
              Send(c, InterfaceMethodGetProgram,
                   NewLocation(calls[c].argument, err))
    \/ /\ calls[c].method = "GetProgram"
       /\ Receive(c, GetProgramResult(ReadMessage(calls[c].conn)))

\* The response is not looked at: nil
ProgramLogResult(msg) == NilResult

ProgramLog(c) ==
    \/ \E str \in LogStrings : Open(c, "ProgramLog", str)
    \/ /\ calls[c].method = "ProgramLog"
       /\ \E err \in BOOLEAN :
              Send(c, InterfaceMethodProgramLog,
                   AnyNew(NewString(calls[c].argument), err))
    \/ /\ calls[c].method = "ProgramLog"
       /\ Receive(c, ProgramLogResult(ReadMessage(calls[c].conn)))

\* The connections when the caller starts a call that opens none: the
\* connection of its previous call is referred to no more
Unreferenced(c) ==
    [k \in Connections |-> IF k = calls[c].conn THEN Dropped ELSE wire[k]]

\* A method that uses no connection returns the result
Return(c, method, argument, result) ==
    /\ calls[c].pc \in {"idle", "returned", "panicked"}
    /\ calls' = [calls EXCEPT ![c] =
           [pc |-> "returned", method |-> method, argument |-> argument,
            conn |-> 0, err |-> FALSE, result |-> result]]
    /\ wire' = Unreferenced(c)
    /\ UNCHANGED capabilityVars

\* panic("implement me")
Panic(c, method) ==
    /\ calls[c].pc \in {"idle", "returned", "panicked"}
    /\ calls' = [calls EXCEPT ![c] =
           [pc |-> "panicked", method |-> method, argument |-> "none",
            conn |-> 0, err |-> FALSE, result |-> NoResult]]
    /\ wire' = Unreferenced(c)
    /\ UNCHANGED capabilityVars

\* TODO: implement; return nil
SetProgram(c) ==
    \E location \in Locations : Return(c, "SetProgram", location, NilResult)

\* TODO: implement; return 1000
GetComputationLimit(c) ==
    Return(c, "GetComputationLimit", "none", [t |-> "uint64", value |-> 1000])

\* TODO: implement; return nil
SetComputationUsed(c) ==
    \E used \in {"0", "1000"} :
        Return(c, "SetComputationUsed", used, NilResult)

\* The methods whose body is panic("implement me")
ImplementMeMethods ==
    {"GetValue", "SetValue", "ValueExists", "AllocateStorageIndex",
     "CreateAccount", "AddEncodedAccountKey", "RevokeEncodedAccountKey",
     "AddAccountKey", "GetAccountKey", "RevokeAccountKey",
     "UpdateAccountContractCode", "GetAccountContractCode",
     "RemoveAccountContractCode", "GetSigningAccounts", "EmitEvent",
     "GenerateUUID", "DecodeArgument", "GetCurrentBlockHeight",
     "GetBlockAtHeight", "UnsafeRandom", "VerifySignature", "Hash",
     "GetAccountBalance", "GetAccountAvailableBalance", "GetStorageUsed",
     "GetStorageCapacity", "ImplementationDebugLog", "ValidatePublicKey",
     "GetAccountContractNames", "RecordTrace", "BLSVerifyPOP",
     "AggregateBLSSignatures", "AggregateBLSPublicKeys",
     "ResourceOwnerChanged"}

ImplementMe(c) == \E method \in ImplementMeMethods : Panic(c, method)

\* The far end writes a response envelope to a connection; it writes one,
\* whether or not the request has arrived.
FarEndResponds ==
    \E k \in Connections, value \in ResponseValues :
        /\ wire[k].status = "open"
        /\ Len(wire[k].replies) = 0
        /\ wire' = [wire EXCEPT ![k].replies = Append(@, ResponseMessage(value))]
        /\ UNCHANGED <<calls, capabilityVars>>

----------------------------------------------------------------------------
(* Specification *)

\* The stores a host may hold when execution starts: code under at most
\* MaxDeployed (address, name) pairs.
InitialStores ==
    {s \in [Addresses \X ContractNames -> Codes] :
        Cardinality({k \in Addresses \X ContractNames : s[k] # <<>>}) <= MaxDeployed}

\* No account has a key
NoKeys == [a \in Addresses |-> <<>>]

Init ==
    /\ contracts \in InitialStores
    /\ recorded = {}
    /\ accountKeys = NoKeys
    /\ encodedKeys = NoKeys
    /\ calls = [c \in Callers |-> Idle]
    /\ wire = [k \in Connections |-> Unopened]
    /\ last = [fault |-> NoFault, op |-> "none", params |-> <<>>,
               result |-> NoValue, self |-> 0, tick |-> 0, trace |-> <<>>]

\* Execution starts on a host that holds code under at most one name
InitOneContract ==
    /\ Init
    /\ Cardinality({k \in Addresses \X ContractNames : contracts[k] # <<>>}) <= 1

NextContracts ==
    \/ ContractsAdd
    \/ ContractsUpdate
    \/ ContractsGet
    \/ ContractsRemove
    \/ ContractsNames

\* No code deployed anywhere
NoContracts == [k \in Addresses \X ContractNames |-> <<>>]

InitKeys ==
    /\ contracts = NoContracts
    /\ recorded = {}
    /\ accountKeys = NoKeys
    /\ encodedKeys = NoKeys
    /\ calls = [c \in Callers |-> Idle]
    /\ wire = [k \in Connections |-> Unopened]
    /\ last = [fault |-> NoFault, op |-> "none", params |-> <<>>,
               result |-> NoValue, self |-> 0, tick |-> 0, trace |-> <<>>]

NextKeysObject ==
    \/ KeysAdd
    \/ KeysGet
    \/ KeysRevoke

\* The account value itself: its construction and the functions it has
NextAccount ==
    \/ CreateAccount
    \/ GetAuthAccount
    \/ GetAccount
    \/ ReadObject
    \/ Balance
    \/ AvailableBalance
    \/ StorageUsed
    \/ StorageCapacity

\* Everything that can be done with a PublicAccount value
NextPublic ==
    \/ GetAccount
    \/ PublicAccountFunction
    \/ PublicAccountKeys
    \/ PublicAccountContracts

NextEncodedKeys ==
    \/ StoredAddPublicKey
    \/ StoredRemovePublicKey

\* Execution starts on a host that holds a structure under the name Foo of
\* the first account, and nothing else
InitFooDeployed ==
    /\ Init
    /\ contracts = [NoContracts EXCEPT ![<<1, "Foo">>] = <<"s">>]

\* The functions that receive a value from a host method that also returns
\* an error
NextHostErrors ==
    \/ KeysAdd
    \/ KeysGet
    \/ KeysRevoke
    \/ RemovePublicKey
    \/ ContractsGet

\* The functions whose answer is an option: nil when the host has nothing
NextAbsence ==
    \/ KeysGet
    \/ KeysRevoke
    \/ ContractsGet
    \/ ContractsRemove

\* The proxy methods that use the wire, and the far end of the connections
NextProxy ==
    \/ \E c \in Callers :
           \/ ResolveLocation(c)
           \/ GetCode(c)
           \/ GetProgram(c)
           \/ ProgramLog(c)
    \/ FarEndResponds

\* The proxy methods that are not finished, and the far end
NextUnfinished ==
    \/ \E c \in Callers :
           \/ ResolveLocation(c)
           \/ GetProgram(c)
           \/ SetProgram(c)
           \/ GetComputationLimit(c)
           \/ SetComputationUsed(c)
           \/ ImplementMe(c)
    \/ FarEndResponds

NextStoredKeys ==
    \/ StoredKeysAdd
    \/ StoredKeysGet
    \/ StoredKeysRevoke

NextKeys ==
    \/ CreateAccount
    \/ AddPublicKey
    \/ RemovePublicKey
    \/ KeysAdd
    \/ KeysGet
    \/ KeysRevoke

Next ==
    \/ NextContracts
    \/ NextKeys

\* The contracts object of an account
Spec == Init /\ [][NextContracts]_vars

\* The keys object of an account, on a host that may answer anything
SpecKeys == InitKeys /\ [][NextKeysObject]_vars

\* The keys object of an account, on the host that keeps keys
SpecStoredKeys == InitKeys /\ [][NextStoredKeys]_vars

\* addPublicKey / removePublicKey, on the host that keeps encoded keys
SpecEncodedKeys == InitKeys /\ [][NextEncodedKeys]_vars

\* The account values and their own functions
SpecAccount == InitKeys /\ [][NextAccount \/ PublicAccountFunction]_vars

\* The functions that answer with an option
SpecAbsence == InitOneContract /\ [][NextAbsence]_vars

\* The functions of an AuthAccount that add, read and revoke keys, and its
\* constructor, on a host that may answer anything
SpecKeyFunctions == InitKeys /\ [][NextKeys]_vars

\* The functions that receive a value from a host method that also returns
\* an error
SpecHostErrors == InitFooDeployed /\ [][NextHostErrors]_vars

\* The Transport Proxy, its methods that are not finished
SpecUnfinished == InitKeys /\ [][NextUnfinished]_vars

\* The contracts object and storageUsed, on a host that may panic
SpecHostPanics ==
    InitOneContract /\ [][HostPanics \/ ContractsRemove \/ ContractsGet]_vars

\* The Transport Proxy
SpecProxy == InitKeys /\ [][NextProxy]_vars

\* The PublicAccount value
SpecPublic == InitOneContract /\ [][NextPublic]_vars

\* Every capability function
SpecAll == Init /\ [][Next]_vars

----------------------------------------------------------------------------
(* Reading the record of a call *)

IsEmit(c) == c.call = "EmitEvent"

\* The events a call emitted, in order
EventsOf(trace) == SelectSeq(trace, IsEmit)

\* The host methods a call invoked
Called(trace, method) == \E i \in 1..Len(trace) : trace[i].call = method

NoHostError(trace) == \A i \in 1..Len(trace) : ~trace[i].err

\* A host call that changed the state of the host
HostMutation(c) ==
    /\ ~c.err
    /\ \/ c.call \in {"CreateAccount", "AddEncodedAccountKey",
                      "RevokeEncodedAccountKey", "AddAccountKey",
                      "RemoveAccountContractCode"}
       \/ c.call = "RevokeAccountKey" /\ c.ret # NoKey

MutatedHost(trace) == \E i \in 1..Len(trace) : HostMutation(trace[i])

MutatingFunctions ==
    {"AuthAccount", "addPublicKey", "removePublicKey", "keys.add", "keys.revoke",
     "contracts.add", "contracts.update", "contracts.remove"}

ChangeFunctions == {"contracts.add", "contracts.update"}

\* The code the host holds under (address, name); none under a name it
\* cannot store.
HeldCode(store, address, name) ==
    IF name \in ContractNames THEN store[<<address, name>>] ELSE <<>>

\* The arguments of a contracts call
NameOf(call) == call.params[1]
CodeOf(call) == call.params[2]

\* Stored code that parses and declares an enum
DeclaresEnum(code) ==
    /\ Len(code) > 0
    /\ ~ParseProgram(code).err
    /\ containsEnumsInProgram(ParseProgram(code))

HostUnchanged ==
    /\ contracts' = contracts
    /\ recorded' = recorded
    /\ accountKeys' = accountKeys
    /\ encodedKeys' = encodedKeys

----------------------------------------------------------------------------
(* Claims *)

\* C1: a call of a state-mutating capability function emits at most one
\* event; it emits exactly one when its host mutation returned without
\* error; and every event it emits comes after a host mutation of the same
\* call that returned without error, never before it.
C1_EventFollowsHostMutation ==
    last.op \in MutatingFunctions =>
        /\ Len(EventsOf(last.trace)) <= 1
        /\ MutatedHost(last.trace) => Len(EventsOf(last.trace)) = 1
        /\ \A i \in 1..Len(last.trace) :
              IsEmit(last.trace[i]) =>
                  \E j \in 1..(i - 1) : HostMutation(last.trace[j])

\* C2: no capability call applies its effect in part: the call emitted an
\* event if and only if it mutated the host.
C2_EventIffHostMutation ==
    (EventsOf(last.trace) # <<>>) <=> MutatedHost(last.trace)

\* C3: contracts.add(name, code) that succeeds, followed immediately by
\* contracts.add(name, otherCode) on the same address (the host answering
\* without error), faults on the second call with 'cannot overwrite existing
\* contract', whatever otherCode is.
C3_SecondAddFaults ==
    [][(/\ last.op = "contracts.add"
        /\ last.fault = NoFault
        /\ last'.op = "contracts.add"
        /\ last'.self = last.self
        /\ NameOf(last') = NameOf(last)
        /\ NoHostError(last'.trace))
       => last'.fault = CannotOverwriteFault]_vars

\* C4: contracts.add(name, code) with non-empty code that succeeds, followed
\* by contracts.get(name) on the same address (the host answering without
\* error), returns a present DeployedContract whose code is the bytes given
\* to add.
C4_AddThenGetRoundTrip ==
    [][(/\ last.op = "contracts.add"
        /\ last.fault = NoFault
        /\ Len(CodeOf(last)) > 0
        /\ last'.op = "contracts.get"
        /\ last'.self = last.self
        /\ NameOf(last') = NameOf(last)
        /\ NoHostError(last'.trace))
       => last'.result =
              SomeValue(NewDeployedContractValue(
                  AddressValue(last.self),
                  StringValue(NameOf(last)),
                  ByteSliceToByteArrayValue(CodeOf(last))))]_vars

\* C5 as claimed: whenever the host holds no code under (address, name) and
\* answers without error, contracts.update(name, code) faults with 'cannot
\* update non-existing contract' and emits no event.
C5_UpdateOfAbsentFaults_AnyName ==
    [][(/\ last'.op = "contracts.update"
        /\ HeldCode(contracts, last'.self, NameOf(last')) = <<>>
        /\ NoHostError(last'.trace))
       => /\ last'.fault = CannotUpdateFault
          /\ EventsOf(last'.trace) = <<>>]_vars

\* C5 as amended: for a non-empty name, whenever the host holds no code
\* under (address, name) and answers without error, contracts.update(name,
\* code) faults with 'cannot update non-existing contract' and emits no
\* event; with the empty name it faults with the empty-name fault, and
\* emits no event either.
C5_UpdateOfAbsentFaults ==
    [][(/\ last'.op = "contracts.update"
        /\ HeldCode(contracts, last'.self, NameOf(last')) = <<>>
        /\ NoHostError(last'.trace))
       => /\ last'.fault =
                 IF NameOf(last') = "" THEN EmptyNameFault ELSE CannotUpdateFault
          /\ EventsOf(last'.trace) = <<>>]_vars

C5_Witness ==
    /\ last.op = "contracts.update"
    /\ NameOf(last) # ""
    /\ HeldCode(contracts, last.self, NameOf(last)) = <<>>
    /\ last.fault = CannotUpdateFault

\* C6: for every host state and non-empty name, with the code fetched for
\* (address, name) without error: add faults iff that code is non-empty,
\* update faults iff it is empty, so exactly one of the two passes the gate;
\* a call the gate faults has made no host mutation and emitted no event,
\* and leaves the host as it was.
C6_GateExclusive ==
    [][last'.op \in ChangeFunctions /\ NameOf(last') # "" /\ NoHostError(last'.trace)
       => LET existing == HeldCode(contracts, last'.self, NameOf(last'))
              faulted == last'.fault # NoFault
          IN  /\ last'.op = "contracts.add" =>
                     /\ faulted <=> Len(existing) > 0
                     /\ faulted => last'.fault = CannotOverwriteFault
              /\ last'.op = "contracts.update" =>
                     /\ faulted <=> Len(existing) = 0
                     /\ faulted => last'.fault = CannotUpdateFault
              /\ (ChangeGate(FALSE, existing) = NoFault)
                     # (ChangeGate(TRUE, existing) = NoFault)
              /\ faulted =>
                     /\ EventsOf(last'.trace) = <<>>
                     /\ ~MutatedHost(last'.trace)
                     /\ HostUnchanged]_vars

C6_Witness ==
    /\ last.op = "contracts.add"
    /\ last.fault = CannotOverwriteFault
    /\ Len(HeldCode(contracts, last.self, NameOf(last))) > 0

\* C7: contracts.add and contracts.update called with the empty name fault
\* with a user fault before any host method is called: no
\* GetAccountContractCode, no event, and the host state is unchanged.
C7_EmptyNameRejectedFirst ==
    [][last'.op \in ChangeFunctions /\ NameOf(last') = ""
       => /\ last'.fault = EmptyNameFault
          /\ last'.fault \in UserFaults
          /\ last'.trace = <<>>
          /\ last'.result = NoValue
          /\ HostUnchanged]_vars

C7_Witness ==
    /\ last.op = "contracts.update"
    /\ NameOf(last) = ""
    /\ last.fault = EmptyNameFault

\* C8: a successful contracts.add emits AccountContractAdded and a
\* successful contracts.update emits AccountContractUpdated, never the other
\* kind; the payload is (address, hash of the new code, name) in that order,
\* and the DeployedContract returned carries the same address, the same name
\* and the new code.
C8_ChangeEventAndResult ==
    last.op \in ChangeFunctions /\ last.fault = NoFault =>
        LET eventType == IF last.op = "contracts.add"
                         THEN "flow.AccountContractAdded"
                         ELSE "flow.AccountContractUpdated"
            events == EventsOf(last.trace)
        IN  /\ Len(events) = 1
            /\ events[1].with[1] = eventType
            /\ events[1].with[2] =
                   <<AddressValue(last.self),
                     CodeToHashValue(CodeOf(last)),
                     StringValue(NameOf(last))>>
            /\ last.result.t = "DeployedContract"
            /\ last.result.address = AddressValue(last.self)
            /\ last.result.name = StringValue(NameOf(last))
            /\ ByteArrayValueToByteSlice(last.result.code) = CodeOf(last)

C8_Witness ==
    /\ last.op = "contracts.update"
    /\ last.fault = NoFault
    /\ CodeOf(last) # HeldCode(contracts, last.self, NameOf(last))

\* C9: contracts.remove(name) when the host holds no code under (address,
\* name) and answers without error returns the absent (nil) option without a
\* fault, emits no event, and calls neither RemoveAccountContractCode nor
\* RecordContractRemoval.
C9_RemoveOfAbsentIsNil ==
    [][(/\ last'.op = "contracts.remove"
        /\ HeldCode(contracts, last'.self, NameOf(last')) = <<>>
        /\ NoHostError(last'.trace))
       => /\ last'.fault = NoFault
          /\ last'.result = NilValue
          /\ EventsOf(last'.trace) = <<>>
          /\ ~Called(last'.trace, "RemoveAccountContractCode")
          /\ ~Called(last'.trace, "RecordContractRemoval")
          /\ HostUnchanged]_vars

C9_Witness ==
    /\ last.op = "contracts.remove"
    /\ NameOf(last) # ""
    /\ last.result = NilValue
    /\ <<last.self, NameOf(last)>> \notin recorded

\* C10: contracts.remove(name) on stored code that parses and declares an
\* enum (the host answering without error) faults with ContractRemovalError,
\* calls neither RemoveAccountContractCode nor RecordContractRemoval, emits
\* no event and changes nothing; an attempt repeated right after such a
\* fault ends in the same fault after the same host calls.
C10_EnumContractNotRemoved ==
    [][/\ (/\ last'.op = "contracts.remove"
           /\ DeclaresEnum(HeldCode(contracts, last'.self, NameOf(last')))
           /\ NoHostError(last'.trace))
          => /\ last'.fault = ContractRemovalError
             /\ ~Called(last'.trace, "RemoveAccountContractCode")
             /\ ~Called(last'.trace, "RecordContractRemoval")
             /\ EventsOf(last'.trace) = <<>>
             /\ HostUnchanged
       /\ (/\ last.op = "contracts.remove"
           /\ last.fault = ContractRemovalError
           /\ last'.op = "contracts.remove"
           /\ last'.self = last.self
           /\ NameOf(last') = NameOf(last)
           /\ NoHostError(last'.trace))
          => /\ last'.fault = ContractRemovalError
             /\ last'.trace = last.trace
             /\ last'.result = last.result
             /\ HostUnchanged]_vars

C10_Witness ==
    /\ last.op = "contracts.remove"
    /\ last.fault = ContractRemovalError
    /\ DeclaresEnum(HeldCode(contracts, last.self, NameOf(last)))

\* C11: contracts.remove(name) that fetched non-empty code it may remove
\* calls GetAccountContractCode, then RemoveAccountContractCode; when the
\* latter answers with an error the call faults after these two calls, with
\* nothing recorded, no event and the host as it was; otherwise it goes on
\* with RecordContractRemoval and then EmitEvent(AccountContractRemoved) with
\* the payload (address, hash of the fetched code, name), the host no longer
\* holds the code, and the result is some(DeployedContract) of the fetched
\* code.
C11_RemovalSteps ==
    [][LET address == last'.self
           name == NameOf(last')
           code == HeldCode(contracts, address, name)
           trace == last'.trace
       IN  (/\ last'.op = "contracts.remove"
            /\ Len(code) > 0
            /\ ~DeclaresEnum(code)
            /\ ~trace[1].err)
           => /\ Len(trace) >= 2
              /\ trace[1] = HostCall("GetAccountContractCode",
                                     <<address, name>>, FALSE, code)
              /\ trace[2].call = "RemoveAccountContractCode"
              /\ trace[2].with = <<address, name>>
              /\ trace[2].err =>
                     /\ Len(trace) = 2
                     /\ last'.fault = HostFault
                     /\ last'.result = NoValue
                     /\ HostUnchanged
              /\ ~trace[2].err =>
                     /\ Len(trace) = 4
                     /\ trace[3].call = "RecordContractRemoval"
                     /\ trace[3].with = <<address, name>>
                     /\ trace[4].call = "EmitEvent"
                     /\ trace[4].with =
                            <<"flow.AccountContractRemoved",
                              <<AddressValue(address),
                                CodeToHashValue(code),
                                StringValue(name)>>>>
                     /\ last'.fault = NoFault
                     /\ last'.result =
                            SomeValue(NewDeployedContractValue(
                                AddressValue(address),
                                StringValue(name),
                                ByteSliceToByteArrayValue(code)))
                     /\ HeldCode(contracts', address, name) = <<>>
                     /\ recorded' = recorded \cup {<<address, name>>}]_vars

C11_Witness ==
    /\ last.op = "contracts.remove"
    /\ last.fault = NoFault
    /\ Len(last.trace) = 4
    /\ last.result.t = "Some"
    /\ ByteArrayValueToByteSlice(last.result.value.code) = <<"s">>
    /\ <<last.self, NameOf(last)>> \in recorded

\* C12: contracts.remove(name) on stored code that is non-empty and does not
\* parse never faults with ContractRemovalError; when the host answers
\* without error the removal goes through: RemoveAccountContractCode is
\* called, AccountContractRemoved is emitted and a present value is
\* returned.
C12_UnparsableCodeIsRemoved ==
    [][LET code == HeldCode(contracts, last'.self, NameOf(last'))
           events == EventsOf(last'.trace)
       IN  (/\ last'.op = "contracts.remove"
            /\ Len(code) > 0
            /\ ParseProgram(code).err)
           => /\ last'.fault # ContractRemovalError
              /\ NoHostError(last'.trace) =>
                     /\ last'.fault = NoFault
                     /\ Called(last'.trace, "RemoveAccountContractCode")
                     /\ Len(events) = 1
                     /\ events[1].with[1] = "flow.AccountContractRemoved"
                     /\ last'.result.t = "Some"
                     /\ HeldCode(contracts', last'.self, NameOf(last')) = <<>>]_vars

\* Unparsable code that holds an enum declaration has been removed.
C12_Witness ==
    /\ last.op = "contracts.remove"
    /\ last.fault = NoFault
    /\ last.result.t = "Some"
    /\ ByteArrayValueToByteSlice(last.result.value.code) = <<"e", "x">>

\* C13: contracts.get(name) calls GetAccountContractCode(address, name) once
\* and nothing else on the host, so it emits no event, and it leaves the
\* host as it was; when the host answers without error the result is the
\* absent (nil) option iff the code returned is empty, and otherwise
\* some(DeployedContract(address, name, code)) with the bytes the host
\* returned.
C13_GetIsPassThrough ==
    [][last'.op = "contracts.get"
       => LET address == last'.self
              name == NameOf(last')
              code == HeldCode(contracts, address, name)
              trace == last'.trace
          IN  /\ Len(trace) = 1
              /\ trace[1].call = "GetAccountContractCode"
              /\ trace[1].with = <<address, name>>
              /\ EventsOf(trace) = <<>>
              /\ HostUnchanged
              /\ trace[1].err => last'.fault = HostFault
              /\ ~trace[1].err =>
                     /\ trace[1].ret = code
                     /\ last'.fault = NoFault
                     /\ (last'.result = NilValue) <=> (Len(code) = 0)
                     /\ Len(code) > 0 =>
                            last'.result =
                                SomeValue(NewDeployedContractValue(
                                    AddressValue(address),
                                    StringValue(name),
                                    ByteSliceToByteArrayValue(code)))]_vars

C13_Witness ==
    /\ last.op = "contracts.get"
    /\ last.result.t = "Some"
    /\ ByteArrayValueToByteSlice(last.result.value.code) =
           HeldCode(contracts, last.self, NameOf(last))

\* C14: contracts.names, when the host answers GetAccountContractNames
\* without error, returns an array as long as the host's list whose i-th
\* element is the host's i-th name, for every i; it calls nothing else on
\* the host.
C14_NamesInHostOrder ==
    last.op = "contracts.names" =>
        /\ Len(last.trace) = 1
        /\ last.trace[1].call = "GetAccountContractNames"
        /\ last.trace[1].with = <<last.self>>
        /\ ~last.trace[1].err =>
               LET names == last.trace[1].ret
               IN  /\ last.fault = NoFault
                   /\ last.result.t = "Array"
                   /\ Len(last.result.elements) = Len(names)
                   /\ \A i \in 1..Len(names) :
                          last.result.elements[i] = StringValue(names[i])

\* A list of three different names has been returned.
C14_Witness ==
    /\ last.op = "contracts.names"
    /\ last.fault = NoFault
    /\ Len(last.result.elements) = 3
    /\ last.result.elements[1] # last.result.elements[3]

----------------------------------------------------------------------------
(* Reading the record of a keys call *)

KeysFunctions == {"keys.add", "keys.get", "keys.revoke"}

\* The call returned an AccountKey value (keys.add), or a present option of
\* one (keys.get, keys.revoke)
ReturnedKey(call) ==
    /\ call.op \in KeysFunctions
    /\ call.fault = NoFault
    /\ call.result # NilValue

\* The AccountKey value a keys call returned
KeyValueOf(call) ==
    IF call.op = "keys.add" THEN call.result ELSE call.result.value

\* The AccountKey value carries the fields of the host's AccountKey
CarriesHostKey(value, accountKey) ==
    /\ value.t = "AccountKey"
    /\ value.keyIndex = IntValue(accountKey.KeyIndex)
    /\ ByteArrayValueToByteSlice(value.publicKey.publicKey) =
           accountKey.PublicKey.PublicKey
    /\ value.publicKey.signatureAlgorithm.rawValue = accountKey.PublicKey.SignAlgo
    /\ value.hashAlgorithm.rawValue = accountKey.HashAlgo
    /\ value.weight.raw = accountKey.Weight * Fix64Factor
    /\ value.isRevoked = BoolValue(accountKey.IsRevoked)

\* C15: keys.add calls AddAccountKey once, first, with the bound address and
\* the decoded key, hash algorithm and weight (the weight decoded to its
\* integer part); when the host answers with an error the call faults and
\* emits nothing; otherwise it emits one AccountKeyAdded(address, public key)
\* after the host call and, the host having returned a key, returns an
\* AccountKey value with the index, hash algorithm, weight and revoked flag
\* of that key.
C15_KeysAdd ==
    last.op = "keys.add" =>
        LET kb == last.params[1]
            sa == last.params[2]
            h == last.params[3]
            w == last.params[4]
            trace == last.trace
            added == {i \in 1..Len(trace) : trace[i].call = "AddAccountKey"}
        IN  /\ Cardinality(added) = 1
            /\ trace[1].call = "AddAccountKey"
            /\ trace[1].with =
                   <<last.self, PublicKey(kb, sa), h, UFix64ToInt(UFix64Value(w))>>
            /\ trace[1].err =>
                   /\ last.fault = HostFault
                   /\ EventsOf(trace) = <<>>
            /\ ~trace[1].err =>
                   /\ Len(trace) = 2
                   /\ trace[2].call = "EmitEvent"
                   /\ trace[2].with[1] = "flow.AccountKeyAdded"
                   /\ trace[2].with[2][1] = AddressValue(last.self)
                   /\ trace[2].with[2][2].t = "PublicKey"
                   /\ ByteArrayValueToByteSlice(trace[2].with[2][2].publicKey) = kb
                   /\ trace[2].with[2][2].signatureAlgorithm.rawValue = sa
                   /\ trace[1].ret # NoKey =>
                          /\ last.fault = NoFault
                          /\ CarriesHostKey(last.result, trace[1].ret)

\* The host returned a revoked key with another hash algorithm than asked for.
C15_Witness ==
    /\ last.op = "keys.add"
    /\ last.fault = NoFault
    /\ last.result.isRevoked = BoolValue(TRUE)
    /\ last.result.hashAlgorithm.rawValue # last.params[3]

\* C16: keys.get(index) calls GetAccountKey and nothing else, so it emits no
\* event and calls no mutating host method; when the host returns no key
\* and no error the result is the absent (nil) option and not a fault; when
\* the host returns a key the result is some(AccountKey) carrying that key,
\* built with a validator that succeeds without asking the host, whatever
\* the host would answer.
C16_KeysGet ==
    last.op = "keys.get" =>
        LET trace == last.trace
        IN  /\ Len(trace) = 1
            /\ trace[1].call = "GetAccountKey"
            /\ EventsOf(trace) = <<>>
            /\ ~MutatedHost(trace)
            /\ trace[1].err => last.fault = HostFault
            /\ ~trace[1].err =>
                   /\ last.fault = NoFault
                   /\ trace[1].ret = NoKey => last.result = NilValue
                   /\ trace[1].ret # NoKey =>
                          /\ last.result.t = "Some"
                          /\ CarriesHostKey(last.result.value, trace[1].ret)
                          /\ \A hostAnswer \in BOOLEAN :
                                 ValidatePublicKey(
                                     last.result.value.publicKey.validator,
                                     hostAnswer)
                                 = [asksHost |-> FALSE, err |-> FALSE]

C16_Witness ==
    /\ last.op = "keys.get"
    /\ last.fault = NoFault
    /\ last.result.t = "Some"
    /\ last.result.value.publicKey.validator = "assumed valid"

\* C17: keys.revoke(index) calls RevokeAccountKey once; when the host
\* returns no key and no error the result is the absent (nil) option and no
\* event is emitted; when the host returns a key, one
\* AccountKeyRemoved(address, index) is emitted after the host call and the
\* result is some(AccountKey) with the fields of the host's key, the revoked
\* flag included.
C17_KeysRevoke ==
    last.op = "keys.revoke" =>
        LET trace == last.trace
            revoked == {i \in 1..Len(trace) : trace[i].call = "RevokeAccountKey"}
        IN  /\ Cardinality(revoked) = 1
            /\ trace[1].call = "RevokeAccountKey"
            /\ trace[1].err => last.fault = HostFault /\ EventsOf(trace) = <<>>
            /\ ~trace[1].err =>
                   /\ last.fault = NoFault
                   /\ trace[1].ret = NoKey =>
                          /\ last.result = NilValue
                          /\ EventsOf(trace) = <<>>
                   /\ trace[1].ret # NoKey =>
                          /\ Len(trace) = 2
                          /\ trace[2].call = "EmitEvent"
                          /\ trace[2].with =
                                 <<"flow.AccountKeyRemoved",
                                   <<AddressValue(last.self),
                                     IntValue(last.params[1])>>>>
                          /\ last.result.t = "Some"
                          /\ CarriesHostKey(last.result.value, trace[1].ret)

\* The host returned a key it had not marked revoked, and so has the value.
C17_Witness ==
    /\ last.op = "keys.revoke"
    /\ last.fault = NoFault
    /\ last.result.t = "Some"
    /\ last.result.value.isRevoked = BoolValue(FALSE)

\* C18: on a host that keeps keys, for every account and key index:
\* keys.get(index) returns the key the host holds in that slot (the absent
\* option when it holds none); the key held in a slot changes only by a
\* keys.revoke(index) on that account, and then only in its revoked flag,
\* which becomes true; so every keys.get(index) returns the same AccountKey
\* until that keys.revoke(index), and the key with revoked = true after it.
C18_GetStableUntilRevoke ==
    [][/\ \A a \in Addresses, i \in KeyIndices :
              LET before == KeyAt(accountKeys, a, i)
                  after == KeyAt(accountKeys', a, i)
                  revokes == /\ last'.op = "keys.revoke"
                             /\ last'.self = a
                             /\ last'.params[1] = i
              IN  /\ (before # NoKey /\ after # before) =>
                         /\ revokes
                         /\ after = [before EXCEPT !.IsRevoked = TRUE]
                  /\ (before # NoKey /\ revokes /\ last'.fault = NoFault) =>
                         /\ after.IsRevoked
                         /\ last'.result.t = "Some"
                         /\ last'.result.value.isRevoked = BoolValue(TRUE)
       /\ (last'.op = "keys.get" /\ last'.fault = NoFault) =>
              LET held == KeyAt(accountKeys', last'.self, last'.params[1])
              IN  IF held = NoKey
                  THEN last'.result = NilValue
                  ELSE /\ last'.result.t = "Some"
                       /\ CarriesHostKey(last'.result.value, held)]_vars

\* keys.get has returned a key that was revoked before.
C18_Witness ==
    /\ last.op = "keys.get"
    /\ ReturnedKey(last)
    /\ KeyValueOf(last).isRevoked = BoolValue(TRUE)
    /\ KeyAt(accountKeys, last.self, last.params[1]).IsRevoked

\* C19: the keyIndex of the AccountKey value that keys.add, keys.get or
\* keys.revoke returns is the KeyIndex of the key the host returned in that
\* call, and keys.get(i) and keys.revoke(i) give i itself to the host.
C19_IndexIsTheHosts ==
    /\ ReturnedKey(last) =>
           KeyValueOf(last).keyIndex.int = last.trace[1].ret.KeyIndex
    /\ last.op \in {"keys.get", "keys.revoke"} =>
           last.trace[1].with = <<last.self, last.params[1]>>

\* The host returned the key of another index than the one asked for, and
\* the value has the host's index.
C19_Witness ==
    /\ last.op = "keys.get"
    /\ ReturnedKey(last)
    /\ KeyValueOf(last).keyIndex.int # last.params[1]

\* C20: the weight keys.add gives to the host is the fixed-point value it
\* was called with, neither rounded nor truncated, and the weight of the
\* AccountKey value returned is the weight the host returned.
C20_WeightCarried ==
    last.op = "keys.add" =>
        /\ last.trace[1].with[4] * Fix64Factor = last.params[4]
        /\ last.fault = NoFault =>
               last.result.weight.raw = last.trace[1].ret.Weight * Fix64Factor

----------------------------------------------------------------------------
(* Reading the record of a call through an account value *)

StorageFunctions ==
    {"storageUsed", "storageCapacity",
     "PublicAccount.storageUsed", "PublicAccount.storageCapacity"}

BalanceFunctions ==
    {"balance", "availableBalance",
     "PublicAccount.balance", "PublicAccount.availableBalance"}

\* The host method that measures, for a storage or balance function
MeasureOf(op) ==
    CASE op \in {"storageUsed", "PublicAccount.storageUsed"} -> "GetStorageUsed"
      [] op \in {"storageCapacity", "PublicAccount.storageCapacity"} ->
             "GetStorageCapacity"
      [] op \in {"balance", "PublicAccount.balance"} -> "GetAccountBalance"
      [] op \in {"availableBalance", "PublicAccount.availableBalance"} ->
             "GetAccountAvailableBalance"

\* The steps that build an account value or one of its objects
BuildingSteps ==
    {"getAuthAccount", "getAccount", "AuthAccount.keys", "AuthAccount.contracts",
     "PublicAccount.keys", "PublicAccount.contracts"}

\* The host methods a read-only value must not reach
MutatingMethods ==
    {"CreateAccount", "AddEncodedAccountKey", "RevokeEncodedAccountKey",
     "AddAccountKey", "RevokeAccountKey", "RemoveAccountContractCode",
     "RecordContractRemoval"}

\* C21: on a host that keeps encoded keys, addPublicKey(keyBytes) on an
\* account that had no keys, followed by removePublicKey(0) on that account
\* (the host answering without error), has RevokeEncodedAccountKey(address,
\* 0) return keyBytes as they were given, and these are the bytes announced
\* in AccountKeyRemoved.
C21_EncodedKeyRoundTrip ==
    [][(/\ last.op = "addPublicKey"
        /\ last.fault = NoFault
        /\ Len(encodedKeys[last.self]) = 1
        /\ last'.op = "removePublicKey"
        /\ last'.self = last.self
        /\ last'.params[1] = 0
        /\ NoHostError(last'.trace))
       => /\ last'.trace[1].call = "RevokeEncodedAccountKey"
          /\ last'.trace[1].with = <<last.self, 0>>
          /\ last'.trace[1].ret = last.params[1]
          /\ EventsOf(last'.trace) =
                 <<EmitEvent("flow.AccountKeyRemoved",
                             <<AddressValue(last.self),
                               ByteSliceToByteArrayValue(last.params[1])>>)>>]_vars

\* The first key of an account has been revoked.
C21_Witness ==
    /\ last.op = "removePublicKey"
    /\ last.fault = NoFault
    /\ last.params[1] = 0
    /\ Len(encodedKeys[last.self]) = 1
    /\ encodedKeys[last.self][1].revoked
    /\ last.trace[1].ret = encodedKeys[last.self][1].key

\* C22: storageUsed and storageCapacity, of an AuthAccount and of a
\* PublicAccount, call CommitStorage(false) first; the measurement call
\* comes only after a CommitStorage that returned without error, and when
\* CommitStorage returns an error the call faults without measuring.
C22_CommitBeforeMeasure ==
    last.op \in StorageFunctions =>
        LET trace == last.trace
            measure == MeasureOf(last.op)
        IN  /\ trace[1].call = "CommitStorage"
            /\ trace[1].with = <<FALSE>>
            /\ \A i \in 1..Len(trace) :
                   trace[i].call = measure => i > 1 /\ ~trace[1].err
            /\ trace[1].err =>
                   /\ last.fault = HostFault
                   /\ ~Called(trace, measure)
            /\ ~trace[1].err =>
                   /\ Len(trace) = 2
                   /\ trace[2].call = measure
                   /\ trace[2].with = <<last.self>>

C22_Witness ==
    /\ last.op = "PublicAccount.storageUsed"
    /\ last.fault = NoFault
    /\ Len(last.trace) = 2
    /\ last.result = UInt64Value(7)

\* C23: balance and availableBalance call GetAccountBalance /
\* GetAccountAvailableBalance once with the bound address and nothing else,
\* so they emit no event; they fault when the host returns an error and
\* otherwise return the host's value as it is.
C23_BalancePassThrough ==
    last.op \in BalanceFunctions =>
        LET trace == last.trace
        IN  /\ Len(trace) = 1
            /\ trace[1].call = MeasureOf(last.op)
            /\ trace[1].with = <<last.self>>
            /\ trace[1].err => last.fault = HostFault /\ last.result = NoValue
            /\ ~trace[1].err =>
                   /\ last.fault = NoFault
                   /\ last.result.t = "UFix64"
                   /\ last.result.raw = trace[1].ret

\* A balance of one and a half has been returned.
C23_Witness ==
    /\ last.op = "balance"
    /\ last.fault = NoFault
    /\ last.result.raw = 150000000

\* C24: AuthAccount(payer) calls CreateAccount once, with the payer's
\* address; when that returns an error the call faults and emits nothing;
\* otherwise it emits one AccountCreated, after CreateAccount, whose payload
\* is the address CreateAccount returned, and the account value returned
\* has that address.
C24_AccountCreated ==
    last.op = "AuthAccount" =>
        LET trace == last.trace
            created == {i \in 1..Len(trace) : trace[i].call = "CreateAccount"}
        IN  /\ Cardinality(created) = 1
            /\ trace[1].call = "CreateAccount"
            /\ trace[1].with = <<last.self>>
            /\ trace[1].err =>
                   /\ last.fault = HostFault
                   /\ EventsOf(trace) = <<>>
            /\ ~trace[1].err =>
                   /\ last.fault = NoFault
                   /\ Len(trace) = 2
                   /\ trace[2].call = "EmitEvent"
                   /\ trace[2].with =
                          <<"flow.AccountCreated", <<AddressValue(trace[1].ret)>>>>
                   /\ last.result.t = "AuthAccount"
                   /\ last.result.address = trace[2].with[2][1]

\* An account has been created at another address than the payer's.
C24_Witness ==
    /\ last.op = "AuthAccount"
    /\ last.fault = NoFault
    /\ last.result.address # AddressValue(last.self)

AbsenceFunctions ==
    {"keys.get", "keys.revoke", "contracts.get", "contracts.remove"}

HostErrored(trace) == ~NoHostError(trace)

\* The host answered the lookup without error, with nothing: no code, or
\* no key
AbsentAnswer(call) ==
    /\ ~call.err
    /\ IF call.call = "GetAccountContractCode"
       THEN Len(call.ret) = 0
       ELSE call.ret = NoKey

ReturnedAbsent(call) == call.fault = NoFault /\ call.result = NilValue

\* C25 as stated: keys.get, keys.revoke, contracts.get and contracts.remove
\* fault iff the host returned an error, and return the absent option iff
\* the host returned no error and nothing.
C25_FaultsIffHostError ==
    last.op \in AbsenceFunctions =>
        /\ last.fault # NoFault <=> HostErrored(last.trace)
        /\ ReturnedAbsent(last) <=>
               NoHostError(last.trace) /\ AbsentAnswer(last.trace[1])

\* C25, amended: keys.get, keys.revoke, contracts.get and contracts.remove
\* fault with the host's error iff the host returned an error; the one
\* other fault is contracts.remove refusing, with ContractRemovalError and
\* no host error, to remove code that is there and declares an enum.  They
\* return the absent option iff the host returned no error and nothing: a
\* host error is never answered with nil, nothing is never answered with a
\* fault.  The host call that returned an error is the last one of the
\* call.
C25_AbsenceOrFault ==
    last.op \in AbsenceFunctions =>
        LET trace == last.trace
        IN  /\ last.fault = HostFault <=> HostErrored(trace)
            /\ last.fault \notin {NoFault, HostFault} =>
                   /\ last.op = "contracts.remove"
                   /\ last.fault = ContractRemovalError
                   /\ ~AbsentAnswer(trace[1])
                   /\ DeclaresEnum(trace[1].ret)
            /\ ReturnedAbsent(last) <=>
                   NoHostError(trace) /\ AbsentAnswer(trace[1])
            /\ HostErrored(trace) => ~ReturnedAbsent(last)
            /\ AbsentAnswer(trace[1]) => last.fault = NoFault
            /\ \A i \in 1..Len(trace) : trace[i].err => i = Len(trace)

\* contracts.remove has faulted though the host returned no error.
C25_Witness ==
    /\ last.op = "contracts.remove"
    /\ last.fault = ContractRemovalError
    /\ NoHostError(last.trace)
    /\ ~AbsentAnswer(last.trace[1])

\* C26: getAuthAccount and getAccount, and the reading of the keys and the
\* contracts member of the value they return, call no host method, emit no
\* event and leave the host as it was; the value built is bound to the
\* address given.
C26_BuildingCallsNoHost ==
    [][last'.op \in BuildingSteps
       => /\ last'.trace = <<>>
          /\ last'.fault = NoFault
          /\ last'.result.address = AddressValue(last'.self)
          /\ HostUnchanged]_vars

C26_Witness ==
    /\ last.op = "getAuthAccount"
    /\ last.result.t = "AuthAccount"
    /\ "keys" \in last.result.objects

\* C28: whatever is done with a PublicAccount value, none of CreateAccount,
\* AddEncodedAccountKey, RevokeEncodedAccountKey, AddAccountKey,
\* RevokeAccountKey, RemoveAccountContractCode and RecordContractRemoval is
\* called and no event is emitted, and the host's code and keys stay as
\* they were; the functions reachable are those of the value, get of its
\* keys object, and get and names of its contracts object.
C28_PublicAccountReadOnly ==
    [][/\ \A i \in 1..Len(last'.trace) :
              /\ last'.trace[i].call \notin MutatingMethods
              /\ ~IsEmit(last'.trace[i])
       /\ HostUnchanged
       /\ last'.op \in
              {"getAccount", "PublicAccount.balance",
               "PublicAccount.availableBalance", "PublicAccount.storageUsed",
               "PublicAccount.storageCapacity", "PublicAccount.keys.get",
               "PublicAccount.contracts.get", "PublicAccount.contracts.names"}]_vars

\* Code and a key have been read through PublicAccount values.
C28_Witness ==
    /\ last.op = "PublicAccount.contracts.get"
    /\ last.result.t = "Some"

----------------------------------------------------------------------------
(* The Transport Proxy *)

\* The connection of the call the caller is in
ConnOf(c) == wire[calls[c].conn]

InCall(c) == calls[c].pc # "idle"

HasReturned(c) == calls[c].pc = "returned"

\* What GetCode writes: one envelope, GetCode and the encoded location
GetCodeRequest(c) ==
    NewRequestMessage(InterfaceMethodGetCode,
                      AnypbAny("bridge.Location", calls[c].argument))

\* One request written, one response read on the same connection, and the
\* value bytes of that response returned
GetCodeExchanged(c) ==
    /\ ConnOf(c).sent = <<GetCodeRequest(c)>>
    /\ ConnOf(c).read = 1
    /\ ~calls[c].err
    /\ calls[c].result = [t |-> "bytes", value |-> ConnOf(c).replies[1].res.value]

\* C29 as stated: when GetCode has returned, it has written exactly one
\* request envelope, of method id GetCode with the encoded location, has
\* read exactly one response envelope on the same connection, and its
\* result is the value bytes of that response.
C29_GetCodeExchange ==
    \A c \in Callers :
        calls[c].method = "GetCode" /\ HasReturned(c) => GetCodeExchanged(c)

\* C29, amended: GetCode opens a connection and encodes the location.  If
\* the encoding fails it returns the error, having written and read
\* nothing.  Otherwise it writes exactly one request envelope, of method id
\* GetCode with the encoded location, returns only after exactly one
\* response envelope has been read on the same connection, and its result
\* is the value bytes of that response.  Before it returns it has no result.
C29_GetCodeExchangeIfEncoded ==
    \A c \in Callers :
        calls[c].method = "GetCode" =>
            /\ Len(ConnOf(c).sent) <= 1
            /\ ConnOf(c).read <= Len(ConnOf(c).sent)
            /\ ~HasReturned(c) => calls[c].result = NoResult /\ ~calls[c].err
            /\ HasReturned(c) /\ ~calls[c].err => GetCodeExchanged(c)
            /\ HasReturned(c) /\ calls[c].err =>
                   /\ ConnOf(c).sent = <<>>
                   /\ ConnOf(c).read = 0
                   /\ calls[c].result = NoResult

\* GetCode has returned the bytes the far end answered with.
C29_Witness ==
    \E c \in Callers :
        /\ calls[c].method = "GetCode"
        /\ HasReturned(c)
        /\ calls[c].result = [t |-> "bytes", value |-> <<"c">>]
        /\ ConnOf(c).sent[1].parameter.value = calls[c].argument

WireMethods == {"ResolveLocation", "GetCode", "GetProgram", "ProgramLog"}

\* On the connection of a call: at most one request written, nothing read
\* that was not asked for, and no result before the read; no other call is
\* on this connection.
Paired(c) ==
    /\ calls[c].method \in WireMethods
    /\ ConnOf(c).status = "open"
    /\ Len(ConnOf(c).sent) <= 1
    /\ ConnOf(c).read <= Len(ConnOf(c).sent)
    /\ Len(ConnOf(c).sent) - ConnOf(c).read <= 1
    /\ calls[c].pc = "opened" => ConnOf(c).sent = <<>>
    /\ calls[c].pc = "written" => Len(ConnOf(c).sent) = 1 /\ ConnOf(c).read = 0
    /\ ~HasReturned(c) => calls[c].result = NoResult
    /\ \A d \in Callers \ {c} : InCall(d) => calls[d].conn # calls[c].conn

\* A step opens a connection for each call it starts and no other, a call
\* keeps its connection, and only the call of a connection writes to it or
\* reads from it.
OneConnectionPerCall ==
    LET opened == {k \in Connections :
                      wire[k].status = "unopened" /\ wire'[k].status = "open"}
        started == {c \in Callers :
                       calls'[c].pc = "opened" /\ calls[c].pc # "opened"}
    IN  /\ Cardinality(opened) = Cardinality(started)
        /\ \A c \in started : calls'[c].conn \in opened
        /\ \A c \in Callers \ started : calls'[c].conn = calls[c].conn
        /\ \A k \in Connections :
               (wire'[k].sent # wire[k].sent \/ wire'[k].read # wire[k].read)
               => \E c \in Callers :
                      /\ calls[c].conn = k
                      /\ calls'[c].pc # calls[c].pc

\* C30 as stated: every call of ResolveLocation, GetCode, GetProgram and
\* ProgramLog opens one connection, writes at most one request to it, reads
\* nothing before writing, and when it returns has read exactly one
\* response from it.
C30_OneReadPerCall ==
    [][/\ OneConnectionPerCall
       /\ \A c \in Callers :
              InCall(c)' =>
                  /\ Paired(c)'
                  /\ HasReturned(c)' => ConnOf(c)'.read = 1]_vars

\* C30, amended: every call of ResolveLocation, GetCode, GetProgram and
\* ProgramLog opens one connection.  If the parameter cannot be encoded the
\* call returns the error and has written and read nothing; otherwise it
\* writes exactly one request, then reads exactly one response on that
\* connection, and returns its result only after the read.  It never reads
\* before writing and never writes a second request, so at most one request
\* is in flight on a connection.
C30_StrictPairing ==
    [][/\ OneConnectionPerCall
       /\ \A c \in Callers :
              InCall(c)' =>
                  /\ Paired(c)'
                  /\ HasReturned(c)' =>
                         IF calls'[c].err
                         THEN /\ ConnOf(c)'.sent = <<>>
                              /\ ConnOf(c)'.read = 0
                              /\ calls'[c].result = NoResult
                         ELSE /\ Len(ConnOf(c)'.sent) = 1
                              /\ ConnOf(c)'.read = 1
                              /\ calls'[c].result # NoResult]_vars

\* One call has returned after its write and its read while another, on
\* another connection, has written and waits for the response.
C30_Witness ==
    \E c, d \in Callers :
        /\ HasReturned(c) /\ ~calls[c].err
        /\ ConnOf(c).read = 1
        /\ calls[d].pc = "written"
        /\ calls[d].conn # calls[c].conn
        /\ Len(ConnOf(d).sent) = 1

----------------------------------------------------------------------------
(* addPublicKey / removePublicKey *)

\* The host calls of the given method in a trace
CallsOf(trace, method) == {i \in 1..Len(trace) : trace[i].call = method}

\* C35: addPublicKey(bytes) calls AddEncodedAccountKey exactly once, with
\* the address of the account and the bytes of the argument.  If the host
\* returns an error the call faults with it and emits nothing; otherwise it
\* emits, after the host call, exactly one AccountKeyAdded event of the
\* address and the byte array given, and returns Void.
C35_AddPublicKey ==
    last.op = "addPublicKey" =>
        LET trace == last.trace
            publicKeyValue == ByteSliceToByteArrayValue(last.params[1])
        IN  /\ trace[1].call = "AddEncodedAccountKey"
            /\ trace[1].with = <<last.self, last.params[1]>>
            /\ Cardinality(CallsOf(trace, "AddEncodedAccountKey")) = 1
            /\ trace[1].err =>
                   /\ last.fault = HostFault
                   /\ Len(trace) = 1
            /\ ~trace[1].err =>
                   /\ last.fault = NoFault
                   /\ Len(trace) = 2
                   /\ trace[2] = EmitEvent("flow.AccountKeyAdded",
                                           <<AddressValue(last.self), publicKeyValue>>)
                   /\ last.result = VoidValue

\* A key has been added, and announced.
C35_Witness ==
    /\ last.op = "addPublicKey"
    /\ last.fault = NoFault
    /\ Len(EventsOf(last.trace)) = 1

\* C36: removePublicKey(index) calls RevokeEncodedAccountKey exactly once.
\* If the host returns an error the call faults with it and emits nothing;
\* otherwise it emits exactly one AccountKeyRemoved event, of the address
\* and the key bytes the host returned, be they empty, and returns Void.
C36_RemovePublicKey ==
    last.op = "removePublicKey" =>
        LET trace == last.trace
        IN  /\ trace[1].call = "RevokeEncodedAccountKey"
            /\ trace[1].with = <<last.self, last.params[1]>>
            /\ Cardinality(CallsOf(trace, "RevokeEncodedAccountKey")) = 1
            /\ trace[1].err =>
                   /\ last.fault = HostFault
                   /\ Len(trace) = 1
            /\ ~trace[1].err =>
                   /\ last.fault = NoFault
                   /\ Len(trace) = 2
                   /\ trace[2] = EmitEvent("flow.AccountKeyRemoved",
                                           <<AddressValue(last.self),
                                             ByteSliceToByteArrayValue(trace[1].ret)>>)
                   /\ last.result = VoidValue

\* The host has returned no bytes for the key it revoked, and the removal
\* was announced all the same.
C36_Witness ==
    /\ last.op = "removePublicKey"
    /\ last.fault = NoFault
    /\ last.trace[1].ret = <<>>
    /\ Len(EventsOf(last.trace)) = 1

----------------------------------------------------------------------------
(* contracts.add / contracts.update and the host's store *)

\* What a call of contracts.add or contracts.update does to the host: it
\* calls no method but GetAccountContractCode and EmitEvent, the latter at
\* most once, and the store of code is after the call what it was before
ChangeLeavesStore ==
    /\ \A i \in 1..Len(last'.trace) :
           last'.trace[i].call \in {"GetAccountContractCode", "EmitEvent"}
    /\ Len(EventsOf(last'.trace)) <= 1
    /\ contracts' = contracts
    /\ \A a \in Addresses, n \in Names :
           GetAccountContractCode(a, n, FALSE)' = GetAccountContractCode(a, n, FALSE)

----------------------------------------------------------------------------
(* Faults and the event log *)

----------------------------------------------------------------------------
(* A host method that returns a value and an error *)

\* The host returned something with its error: a key, key bytes, or code
ValueWithError(call) ==
    /\ call.err
    /\ IF call.call \in {"GetAccountContractCode", "RevokeEncodedAccountKey"}
       THEN Len(call.ret) > 0
       ELSE call.ret # NoKey

\* C34: when GetAccountKey, RevokeAccountKey, AddAccountKey,
\* GetAccountContractCode or RevokeEncodedAccountKey returns a value
\* together with an error, the function faults with the error: it returns
\* no value, emits no event, and calls the host no more.
C34_ErrorDiscardsValue ==
    \A i \in 1..Len(last.trace) :
        (/\ last.trace[i].call \in
                {"GetAccountKey", "RevokeAccountKey", "AddAccountKey",
                 "GetAccountContractCode", "RevokeEncodedAccountKey"}
         /\ ValueWithError(last.trace[i]))
        => /\ last.fault = HostFault
           /\ last.result = NoValue
           /\ EventsOf(last.trace) = <<>>
           /\ i = Len(last.trace)

\* contracts.get was answered with the code the host holds and an error.
C34_Witness ==
    /\ last.op = "contracts.get"
    /\ ValueWithError(last.trace[1])
    /\ last.trace[1].ret = <<"s">>
    /\ last.fault = HostFault

----------------------------------------------------------------------------
(* A host that panics *)

\* The host panicked in a call of the trace
Panicked(trace) == \E i \in 1..Len(trace) : "panic" \in DOMAIN trace[i]

\* C39: every call of a host method is made inside wrapPanic, so that a
\* call during which the host panics ends in a host fault: so for
\* GetAccountContractCode in contracts.add and contracts.update as in
\* contracts.get and contracts.remove, and for CommitStorage, EmitEvent and
\* RecordContractRemoval.
C39_HostPanicsAreHostFaults ==
    Panicked(last.trace) =>
        /\ last.fault = HostFault
        /\ \A i \in 1..Len(last.trace) :
               InsideWrapPanic(last.op, last.trace[i].call)

----------------------------------------------------------------------------
(* The Transport Proxy: the methods that are not finished *)

\* The methods whose result is not made of what the far end answers
UnfinishedMethods ==
    ImplementMeMethods \cup
        {"ResolveLocation", "GetProgram", "SetProgram",
         "GetComputationLimit", "SetComputationUsed"}

\* C31: no call of a proxy method that is not finished returns: each ends
\* in a panic, and none hands a nil, a zero or a constant to its caller.
C31_UnfinishedFailLoudly ==
    \A c \in Callers :
        calls[c].method \in UnfinishedMethods => ~HasReturned(c)

----------------------------------------------------------------------------
(* The Transport Proxy: errors *)

\* The caller's call reads a response in this step
ReadsResponse(c) ==
    /\ calls[c].conn \in Connections
    /\ calls'[c].conn = calls[c].conn
    /\ wire'[calls[c].conn].read = wire[calls[c].conn].read + 1

\* C37: a call of GetCode or ProgramLog comes to return an error only in
\* the step that encodes its parameter, before anything is written or
\* read.  The step that reads a response envelope returns, whatever the
\* envelope holds, and without an error: from GetCode the value bytes of the
\* response, be they empty, from ProgramLog nil.
C37_NoErrorOnResponsePath ==
    [][\A c \in Callers :
           calls'[c].method \in {"GetCode", "ProgramLog"} =>
               /\ calls'[c].err /\ ~calls[c].err =>
                      /\ calls[c].pc = "opened"
                      /\ HasReturned(c)'
                      /\ wire' = wire
                      /\ ConnOf(c).sent = <<>> /\ ConnOf(c).read = 0
               /\ ReadsResponse(c) =>
                      /\ HasReturned(c)'
                      /\ ~calls'[c].err
                      /\ calls'[c].result =
                             IF calls'[c].method = "GetCode"
                             THEN [t |-> "bytes",
                                   value |-> ReadMessage(calls[c].conn).res.value]
                             ELSE NilResult]_vars

\* GetCode has returned, without an error, the empty value bytes of the
\* response it read, and ProgramLog has returned nil after its read.
C37_Witness ==
    \E c, d \in Callers :
        /\ calls[c].method = "GetCode" /\ HasReturned(c)
        /\ ConnOf(c).read = 1
        /\ ConnOf(c).replies[1].res.value = <<>>
        /\ ~calls[c].err
        /\ calls[c].result = [t |-> "bytes", value |-> <<>>]
        /\ calls[d].method = "ProgramLog" /\ HasReturned(d)
        /\ calls[d].conn \in Connections /\ ConnOf(d).read = 1
        /\ ~calls[d].err /\ calls[d].result = NilResult

----------------------------------------------------------------------------
(* The Transport Proxy: connections *)

\* The connections that were opened; none of them was closed
OpenConnections == {k \in Connections : wire[k].status # "unopened"}

\* The connection of the caller's call is open, and the call has written
\* nothing to it and read nothing from it
OpenAndUnused(c) ==
    /\ ConnOf(c).status = "open"
    /\ ConnOf(c).sent = <<>>
    /\ ConnOf(c).read = 0

\* The callers that start a call of a method that uses the wire in this step
Starting == {c \in Callers : calls'[c].pc = "opened" /\ calls[c].pc # "opened"}

====
